---------------------------- MODULE Spec2Model ----------------------------
(***************************************************************************)
(* A model of business_rules/operators.py: the typed value wrappers and    *)
(* their predicate operators.                                              *)
(*                                                                         *)
(* Every wrapper is a small state machine: its payload is fixed by the     *)
(* constructor (Init), and every operator call is one action that records  *)
(* the operator, its argument and the value it returned (or the error it   *)
(* raised), and changes the payload exactly where the code assigns to it.  *)
(*                                                                         *)
(* Python values are records [k, s, n, l]: k is the kind ("null", "str",   *)
(* "num", "list", "bool", "nan"), s the text as a sequence of              *)
(* one-character strings, n the number (1 and 0 for True and False) and l  *)
(* the elements of a list (each a text).                                   *)
(***************************************************************************)
EXTENDS Integers, Sequences, FiniteSets, TLC

VARIABLES
    num_value,          \* NumericType.value
    num_op,             \* the NumericType operator called last
    num_arg,            \* its argument
    num_result,         \* what it returned
    value,              \* DataframeType.value: the table
    column_prefix_map,  \* DataframeType.column_prefix_map
    relationship_data,  \* DataframeType.relationship_data
    uuid,               \* how many uuid4() names the wrapper has drawn
    column_codelist_map, \* DataframeType.column_codelist_map
    codelist_term_maps, \* DataframeType.codelist_term_maps
    value_level_metadata, \* DataframeType.value_level_metadata
    op,                 \* the DataframeType operator called last
    args,               \* its other_value
    result,             \* what it returned
    type_name,          \* the class of the scalar wrapper (its name attribute)
    type_value,         \* BaseType.value of the scalar wrapper
    type_op,            \* the operator of the scalar wrapper called last
    type_arg,           \* its argument
    type_result         \* what it returned

numvars == <<num_value, num_op, num_arg, num_result>>
dfvars == <<value, column_prefix_map, relationship_data, uuid,
            column_codelist_map, codelist_term_maps, value_level_metadata,
            op, args, result>>
typevars == <<type_name, type_value, type_op, type_arg, type_result>>
vars == <<num_value, num_op, num_arg, num_result,
          value, column_prefix_map, relationship_data, uuid,
          column_codelist_map, codelist_term_maps, value_level_metadata,
          op, args, result,
          type_name, type_value, type_op, type_arg, type_result>>

---------------------------------------------------------------------------
(* Python values *)

None == [k |-> "null", s |-> <<>>, n |-> 0, l |-> <<>>]
Str(t) == [k |-> "str", s |-> t, n |-> 0, l |-> <<>>]
Num(i) == [k |-> "num", s |-> <<>>, n |-> i, l |-> <<>>]
List(ts) == [k |-> "list", s |-> <<>>, n |-> 0, l |-> ts]
PyCell(b) == [k |-> "bool", s |-> <<>>, n |-> IF b THEN 1 ELSE 0, l |-> <<>>]
NaN == [k |-> "nan", s |-> <<>>, n |-> 0, l |-> <<>>]

(* What an operator call leaves behind: a scalar boolean, a mask (one of    *)
(* "True", "False", "NA" per entry) or the error that aborted it.          *)
NoResult == [kind |-> "none", bool |-> FALSE, mask |-> <<>>]
Bool(b) == [kind |-> "bool", bool |-> b, mask |-> <<>>]
Mask(m) == [kind |-> "mask", bool |-> FALSE, mask |-> m]
Error == [kind |-> "error", bool |-> FALSE, mask |-> <<>>]

---------------------------------------------------------------------------
(* NumericType.  Numbers are counted in units of 5e-7 (half the           *)
(* tolerance), so that EPSILON = Decimal('0.000001') is 2 units and 1e-5  *)
(* is 20 units.                                                            *)

EPSILON == 2

MaxNum == 11

NumRange == (0 - MaxNum) .. MaxNum

abs(x) == IF x < 0 THEN 0 - x ELSE x

(* _assert_valid_value_and_cast: a float, int or Decimal payload becomes a *)
(* Decimal (a bool is an int to isinstance), any other payload raises      *)
(* AssertionError.                                                         *)
NumericType_is_valid(v) == v.k \in {"num", "bool"}

NumericType_equal_to_strict(v, other) == abs(v - other) < EPSILON

NumericType_equal_to(v, other) == abs(v - other) <= EPSILON

NumericType_not_equal_to(v, other) == abs(v - other) > EPSILON

NumericType_greater_than_inclusive(v, other) == (v - other) >= EPSILON

NumericType_greater_than(v, other) == (v - other) > EPSILON

NumericType_less_than(v, other) == (other - v) > EPSILON

NumericType_greater_than_or_equal_to(v, other) ==
    NumericType_greater_than(v, other) \/ NumericType_equal_to(v, other)

NumericType_less_than_or_equal_to(v, other) ==
    NumericType_less_than(v, other) \/ NumericType_equal_to(v, other)

(* type_operator's inner(): the argument is cast first, and a payload that *)
(* is no number aborts the call.                                           *)
NumArgs == {Num(i) : i \in NumRange} \cup {Str(<<"x">>), None}

NumCall(name, a, b) ==
    /\ num_op' = name
    /\ num_arg' = a
    /\ num_result' = IF NumericType_is_valid(a) THEN Bool(b) ELSE Error
    /\ UNCHANGED num_value
    /\ UNCHANGED typevars

num_equal_to ==
    \E a \in NumArgs : NumCall("equal_to", a, NumericType_equal_to(num_value, a.n))

num_not_equal_to ==
    \E a \in NumArgs : NumCall("not_equal_to", a, NumericType_not_equal_to(num_value, a.n))

num_greater_than ==
    \E a \in NumArgs : NumCall("greater_than", a, NumericType_greater_than(num_value, a.n))

num_greater_than_or_equal_to ==
    \E a \in NumArgs : NumCall("greater_than_or_equal_to", a,
                               NumericType_greater_than_or_equal_to(num_value, a.n))

num_less_than ==
    \E a \in NumArgs : NumCall("less_than", a, NumericType_less_than(num_value, a.n))

num_less_than_or_equal_to ==
    \E a \in NumArgs : NumCall("less_than_or_equal_to", a,
                               NumericType_less_than_or_equal_to(num_value, a.n))

---------------------------------------------------------------------------
(* Text.  A Python str is a sequence of one-character strings; characters  *)
(* are ordered by code point.                                              *)

Alphabet ==
    <<"-", "0", "1", "2", "3", "4", "5", "6", "7", "8", "9",
      "A", "B", "C", "D", "E", "F", "G", "H", "I", "J", "K", "L", "M",
      "N", "O", "P", "Q", "R", "S", "T", "U", "V", "W", "X", "Y", "Z", "_",
      "a", "b", "c", "d", "e", "f", "g", "h", "i", "j", "k", "l", "m",
      "n", "o", "p", "q", "r", "s", "t", "u", "v", "w", "x", "y", "z">>

CodePoint == [c \in {Alphabet[i] : i \in DOMAIN Alphabet} |->
                 CHOOSE i \in DOMAIN Alphabet : Alphabet[i] = c]

(* str.lower(), character by character *)
LowerChar(c) ==
    IF CodePoint[c] \in CodePoint["A"] .. CodePoint["Z"]
    THEN Alphabet[CodePoint[c] - CodePoint["A"] + CodePoint["a"]]
    ELSE c

Lower(t) == [i \in DOMAIN t |-> LowerChar(t[i])]

(* str.startswith(prefix) *)
StartsWith(t, prefix) ==
    /\ Len(prefix) <= Len(t)
    /\ SubSeq(t, 1, Len(prefix)) = prefix

(* t.replace(prefix, replacement, 1) for a t that starts with prefix *)
ReplaceFirst(t, prefix, replacement) ==
    replacement \o SubSeq(t, Len(prefix) + 1, Len(t))

(* t < u, as Python compares two str *)
RECURSIVE TextLess(_, _)
TextLess(t, u) ==
    IF u = <<>> THEN FALSE
    ELSE IF t = <<>> THEN TRUE
    ELSE IF t[1] # u[1] THEN CodePoint[t[1]] < CodePoint[u[1]]
    ELSE TextLess(Tail(t), Tail(u))

PyBool(b) == IF b THEN "True" ELSE "False"

(* bool(x) *)
Truthy(x) ==
    \/ x.k = "str" /\ x.s # <<>>
    \/ x.k = "num" /\ x.n # 0
    \/ x.k = "list" /\ x.l # <<>>
    \/ x.k = "bool" /\ x.n # 0

---------------------------------------------------------------------------
(* DataframeType.  The table is the sequence of its columns, each a name   *)
(* and the cells of its rows.                                              *)

EmptyTable == <<>>

ColumnNames(df) == {df[i].name : i \in DOMAIN df}

NRows(df) == IF df = <<>> THEN 0 ELSE Len(df[1].cells)

Rows(df) == 1 .. NRows(df)

(* key in df *)
InTable(df, key) == key.k = "str" /\ key.s \in ColumnNames(df)

(* df[key], for a key in df *)
Column(df, key) == df[CHOOSE i \in DOMAIN df : df[i].name = key.s].cells

(* A mask out of per-row outcomes; an error in one row aborts the call *)
RowMask(m) ==
    IF \E r \in DOMAIN m : m[r] = "error" THEN Error ELSE Mask(m)

(* ~mask: element-wise on a boolean mask; a mask holding NaN is of object  *)
(* dtype and float has no __invert__                                       *)
Invert(res) ==
    IF res.kind # "mask" THEN Error
    ELSE IF \E i \in DOMAIN res.mask : res.mask[i] = "NaN" THEN Error
    ELSE Mask([i \in DOMAIN res.mask |->
                  CASE res.mask[i] = "True" -> "False"
                    [] res.mask[i] = "False" -> "True"
                    [] OTHER -> res.mask[i]])

(* other_value, with every field the operators read; an absent field reads *)
(* as None through dict.get                                                *)
NoArgs ==
    [target |-> None, comparator |-> None, value_is_literal |-> FALSE,
     context |-> None, within |-> None, ordering |-> None,
     regex |-> None, date_component |-> None,
     prefix |-> None, suffix |-> None, order |-> None]

(* replace_prefix: the first key of column_prefix_map, in the map's order, *)
(* that the string starts with is replaced once                            *)
RECURSIVE replace_prefix_from(_, _, _)
replace_prefix_from(map, i, v) ==
    IF i > Len(map) THEN v
    ELSE IF StartsWith(v.s, map[i].prefix)
         THEN Str(ReplaceFirst(v.s, map[i].prefix, map[i].replacement))
         ELSE replace_prefix_from(map, i + 1, v)

replace_prefix(v) ==
    IF v.k = "str" THEN replace_prefix_from(column_prefix_map, 1, v) ELSE v

(* get_comparator_data: DataFrame.get(comparator, comparator) *)
get_comparator_is_column(comparator, value_is_literal) ==
    ~value_is_literal /\ InTable(value, comparator)

(* What pandas makes of no rows differs between its builds: "typed" keeps  *)
(* the columns of the table and the object dtype, "untyped" gives a        *)
(* float64 result without columns, and float64 has no ~                    *)
PandasBuild == {"typed", "untyped"}

(* exists *)
exists(a) ==
    LET target_column == replace_prefix(a.target)
    IN Mask([r \in Rows(value) |-> PyBool(InTable(value, target_column))])

(* not_exists: ~ on pd.Series([]) raises where the series is float64 *)
not_exists(a, build) ==
    IF NRows(value) = 0 /\ build = "untyped" THEN Error ELSE Invert(exists(a))

IsNull(x) == x = Str(<<>>) \/ x = None

(* _check_equality / _check_inequality on row r of df; "error" is the      *)
(* KeyError                                                                *)
(* or AttributeError the row function raises                               *)
check_row(df, r, target, comparator, value_is_literal, case_insensitive, equal, null_rule) ==
    IF ~InTable(df, target) THEN "error"
    ELSE
      LET comparison_data ==
              IF ~InTable(df, comparator) \/ value_is_literal
              THEN comparator ELSE Column(df, comparator)[r]
          cell == Column(df, target)[r]
          both_null == IsNull(comparison_data) /\ IsNull(cell)
          target_val == IF Truthy(cell) THEN Str(Lower(cell.s)) ELSE None
          comparison_val ==
              IF Truthy(comparison_data) THEN Str(Lower(comparison_data.s)) ELSE None
      IN IF null_rule /\ both_null THEN "False"
         ELSE IF case_insensitive
         THEN IF \/ Truthy(cell) /\ cell.k # "str"
                 \/ Truthy(comparison_data) /\ comparison_data.k # "str"
              THEN "error"
              ELSE PyBool((target_val = comparison_val) <=> equal)
         ELSE PyBool((cell = comparison_data) <=> equal)

_check_equality_no_null_rule(df, r, target, comparator, value_is_literal, case_insensitive) ==
    check_row(df, r, target, comparator, value_is_literal, case_insensitive, TRUE, FALSE)

_check_equality(df, r, target, comparator, value_is_literal, case_insensitive) ==
    check_row(df, r, target, comparator, value_is_literal, case_insensitive, TRUE, TRUE)

_check_inequality_no_null_rule(df, r, target, comparator, value_is_literal, case_insensitive) ==
    check_row(df, r, target, comparator, value_is_literal, case_insensitive, FALSE, FALSE)

_check_inequality(df, r, target, comparator, value_is_literal, case_insensitive) ==
    check_row(df, r, target, comparator, value_is_literal, case_insensitive, FALSE, TRUE)

(* The comparator of the equality operators: rewritten unless literal *)
equality_comparator(a) ==
    IF ~a.value_is_literal THEN replace_prefix(a.comparator) ELSE a.comparator

equal_to(a) ==
    LET target == replace_prefix(a.target)
        comparator == equality_comparator(a)
    IN RowMask([r \in Rows(value) |->
                   _check_equality(value, r, target, comparator, a.value_is_literal, FALSE)])

equal_to_case_insensitive(a) ==
    LET target == replace_prefix(a.target)
        comparator == equality_comparator(a)
    IN RowMask([r \in Rows(value) |->
                   _check_equality(value, r, target, comparator, a.value_is_literal, TRUE)])

not_equal_to_case_insensitive(a) ==
    LET target == replace_prefix(a.target)
        comparator == equality_comparator(a)
    IN RowMask([r \in Rows(value) |->
                   _check_inequality(value, r, target, comparator, a.value_is_literal, TRUE)])

not_equal_to(a) ==
    LET target == replace_prefix(a.target)
        comparator == equality_comparator(a)
    IN RowMask([r \in Rows(value) |->
                   _check_inequality(value, r, target, comparator, a.value_is_literal, FALSE)])

(* The dtype pandas gives a column: int64 for whole numbers, float64 when  *)
(* numbers stand beside nulls, object for everything else                  *)
Dtype(cells) ==
    IF cells # <<>> /\ \A i \in DOMAIN cells : cells[i].k = "num" THEN "int64"
    ELSE IF /\ \E i \in DOMAIN cells : cells[i].k = "num"
            /\ \A i \in DOMAIN cells : cells[i].k \in {"num", "null"}
         THEN "float64"
         ELSE "object"

(* Series.str is there for object columns of text only *)
HasStr(cells) ==
    /\ Dtype(cells) = "object"
    /\ \A i \in DOMAIN cells : cells[i].k # "bool"

(* re.match(pattern, text) for a pattern of literal characters *)
re_match(pattern, text) == StartsWith(text, pattern)

(* matches_regex: Series.str.match, NaN where the cell is no str *)
matches_regex(a) ==
    LET target == replace_prefix(a.target)
        comparator == a.comparator
    IN IF ~InTable(value, target) THEN Error
       ELSE IF ~HasStr(Column(value, target)) \/ comparator.k # "str" THEN Error
       ELSE Mask([r \in Rows(value) |->
                     IF Column(value, target)[r].k = "str"
                     THEN PyBool(re_match(comparator.s, Column(value, target)[r].s))
                     ELSE "NaN"])

not_matches_regex(a) == Invert(matches_regex(a))

(* Series.str.len(): a number, or NaN (kind "null") where the cell is no str *)
str_len(cell) == IF cell.k = "str" THEN Num(Len(cell.s)) ELSE None

(* has_equal_length *)
has_equal_length(a) ==
    LET target == replace_prefix(a.target)
        comparator == a.comparator
        is_column == get_comparator_is_column(comparator, a.value_is_literal)
        comparison_data == IF is_column THEN Column(value, comparator) ELSE <<>>
        length(r) == str_len(Column(value, target)[r])
    IN IF ~InTable(value, target) THEN Error
       ELSE IF ~HasStr(Column(value, target)) THEN Error
       ELSE IF is_column /\ Dtype(comparison_data) = "int64"
       THEN Mask([r \in Rows(value) |->
                     PyBool(length(r).k = "num" /\ length(r) = comparison_data[r])])
       ELSE IF is_column
       THEN IF ~HasStr(comparison_data) THEN Error
            ELSE Mask([r \in Rows(value) |->
                          PyBool(length(r).k = "num" /\ length(r) = str_len(comparison_data[r]))])
       ELSE Mask([r \in Rows(value) |->
                     PyBool(length(r).k = "num" /\ length(r) = comparator)])

has_not_equal_length(a) == Invert(has_equal_length(a))

(* is_column_of_iterables(column): "raises" is the IndexError of iloc[0] on *)
(* a column without rows                                                   *)
is_column_of_iterables(cells) ==
    IF cells = <<>> THEN "raises" ELSE PyBool(cells[1].k = "list")

(* vectorized_is_in(needles, haystacks): row r asks whether needle r is in *)
(* the iterable of row r                                                   *)
vectorized_is_in(needles, haystacks) ==
    Mask([r \in DOMAIN needles |->
             PyBool(/\ needles[r].k = "str"
                    /\ \E i \in DOMAIN haystacks[r].l : haystacks[r].l[i] = needles[r].s)])

(* is_contained_by: row-local over a column of iterables, else Series.isin *)
(* over a list or over a column's values; a scalar is no list-like and     *)
(* isin raises                                                             *)
is_contained_by(a) ==
    LET target == replace_prefix(a.target)
        comparator ==
            IF a.comparator.k = "str" /\ ~a.value_is_literal
            THEN replace_prefix(a.comparator) ELSE a.comparator
        is_column == get_comparator_is_column(comparator, a.value_is_literal)
        values ==
            IF is_column
            THEN {Column(value, comparator)[r] : r \in Rows(value)}
            ELSE {Str(comparator.l[i]) : i \in DOMAIN comparator.l}
    IN IF is_column /\ is_column_of_iterables(Column(value, comparator)) = "raises" THEN Error
       ELSE IF ~InTable(value, target) THEN Error
       ELSE IF is_column /\ is_column_of_iterables(Column(value, comparator)) = "True"
       THEN vectorized_is_in(Column(value, target), Column(value, comparator))
       ELSE IF ~is_column /\ comparator.k # "list" THEN Error
       ELSE Mask([r \in Rows(value) |-> PyBool(Column(value, target)[r] \in values)])

is_not_contained_by(a) == Invert(is_contained_by(a))

(* An ISO 8601 date YYYY-MM, and its components *)
IsDate(cell) == cell.k = "str" /\ Len(cell.s) = 7 /\ cell.s[5] = "-"

get_date_component(component, cell) ==
    IF component = Str(<<"y", "e", "a", "r">>) THEN SubSeq(cell.s, 1, 4)
    ELSE SubSeq(cell.s, 6, 7)

(* vectorized_compare_dates(component, left, right, operator) on the dates *)
(* of two rows: operator is "eq" or "ne"                                   *)
compare_dates(component, left, right, operator) ==
    IF operator = "eq"
    THEN get_date_component(component, left) = get_date_component(component, right)
    ELSE get_date_component(component, left) # get_date_component(component, right)

(* date_comparison; the comparator is rewritten whether literal or not *)
date_comparison(a, operator) ==
    LET target == replace_prefix(a.target)
        comparator == replace_prefix(a.comparator)
        is_column == get_comparator_is_column(comparator, a.value_is_literal)
        comparison_data(r) == IF is_column THEN Column(value, comparator)[r] ELSE comparator
    IN IF ~InTable(value, target) THEN Error
       ELSE Mask([r \in Rows(value) |->
                     PyBool(compare_dates(a.date_component, Column(value, target)[r],
                                          comparison_data(r), operator))])

date_equal_to(a) == date_comparison(a, "eq")

date_not_equal_to(a) == date_comparison(a, "ne")

(* empty: the cell is "" or None *)
empty(a) ==
    LET target == replace_prefix(a.target)
    IN IF ~InTable(value, target) THEN Error
       ELSE Mask([r \in Rows(value) |-> PyBool(IsNull(Column(value, target)[r]))])

non_empty(a) == Invert(empty(a))

(* x < y between two cells of one kind, text or numbers *)
CellLess(x, y) == IF x.k = "num" THEN x.n < y.n ELSE TextLess(x.s, y.s)

(* The rows of df as they stand, and in every order *)
RowOrder(df) == [i \in Rows(df) |-> i]

RowOrders(df) ==
    {p \in [Rows(df) -> Rows(df)] : \A i, j \in Rows(df) : i # j => p[i] # p[j]}

(* sort_values(by=[by]): quicksort gives no promise on ties, so every order *)
(* that ascends in by is one the sort may return; when by is no column the *)
(* call raises and there is no order to speak of                           *)
sort_values(df, by) ==
    IF ~InTable(df, by) THEN {RowOrder(df)}
    ELSE {p \in RowOrders(df) :
             \A i \in 1 .. (NRows(df) - 1) :
                 ~CellLess(Column(df, by)[p[i + 1]], Column(df, by)[p[i]])}

(* groupby(by): the keys in ascending order, a null key in no group, and   *)
(* the rows of a group in the order the table has them                     *)
RECURSIVE SortedKeys(_)
SortedKeys(keys) ==
    IF keys = {} THEN <<>>
    ELSE LET least == CHOOSE x \in keys : \A y \in keys \ {x} : CellLess(x, y)
         IN <<least>> \o SortedKeys(keys \ {least})

GroupKeys(df, by) ==
    SortedKeys({Column(df, by)[r] : r \in Rows(df)} \ {None, NaN})

GroupOf(df, rows, by, key) == SelectSeq(rows, LAMBDA r : Column(df, by)[r] = key)

(* Series.explode().tolist() over a series of lists *)
RECURSIVE explode(_)
explode(lists) == IF lists = <<>> THEN <<>> ELSE Head(lists) \o explode(Tail(lists))

(* The rows that are not the last of their group: x[:-1] per group *)
ExceptLastRow(df, by) ==
    {r \in Rows(df) :
        /\ Column(df, by)[r] \notin {None, NaN}
        /\ \E later \in Rows(df) : later > r /\ Column(df, by)[later] = Column(df, by)[r]}

(* str(uuid4()) and f"result_{uuid4()}", the n-th name drawn *)
uuid4(n) == <<"u", "u", "i", "d", "-", ToString(n)>>

result_uuid4(n) == <<"r", "e", "s", "u", "l", "t", "_">> \o uuid4(n)

(* self.value[name] = cells *)
SetColumn(df, name, cells) == df \o << [name |-> name, cells |-> cells] >>

(* empty_within_except_last_row: the comparator is taken as given *)
empty_within_except_last_row(a) ==
    LET target == replace_prefix(a.target)
        comparator == a.comparator
    IN IF ~InTable(value, comparator) \/ ~InTable(value, target) THEN Error
       ELSE Bool(\E r \in ExceptLastRow(value, comparator) :
                     IsNull(Column(value, target)[r]))

(* the table it leaves behind: the rows it judged hold the judgement, the  *)
(* last row of every group holds NaN                                       *)
empty_within_except_last_row_value(a, name) ==
    LET target == replace_prefix(a.target)
        comparator == a.comparator
    IN IF ~InTable(value, comparator) \/ ~InTable(value, target) THEN value
       ELSE SetColumn(value, name,
                [r \in Rows(value) |->
                    IF r \in ExceptLastRow(value, comparator)
                    THEN PyCell(IsNull(Column(value, target)[r]))
                    ELSE NaN])

(* non_empty_within_except_last_row; ~ on the float64 result of an untyped *)
(* group-by raises                                                         *)
non_empty_within_except_last_row(a, build) ==
    LET target == replace_prefix(a.target)
        comparator == a.comparator
    IN IF ~InTable(value, comparator) \/ ~InTable(value, target) THEN Error
       ELSE IF NRows(value) = 0 /\ build = "untyped" THEN Error
       ELSE Bool(\A r \in ExceptLastRow(value, comparator) :
                     ~IsNull(Column(value, target)[r]))

non_empty_within_except_last_row_value(a, build, name) ==
    LET target == replace_prefix(a.target)
        comparator == a.comparator
    IN IF non_empty_within_except_last_row(a, build) = Error THEN value
       ELSE SetColumn(value, name,
                [r \in Rows(value) |->
                    IF r \in ExceptLastRow(value, comparator)
                    THEN PyCell(~IsNull(Column(value, target)[r]))
                    ELSE NaN])

(* apply_regex(regex, cell): the part of the cell the regex captures, for  *)
(* a regex that captures a literal text at the start of the cell           *)
apply_regex(regex, cell) ==
    IF cell.k = "str" /\ StartsWith(cell.s, regex.s) THEN Str(regex.s) ELSE None

(* equals_string_part: the table it leaves behind holds the parsed data    *)
(* under the name parsed_id                                                *)
equals_string_part_value(a, parsed_id) ==
    LET comparator == a.comparator
        is_column == get_comparator_is_column(comparator, a.value_is_literal)
    IN SetColumn(value, parsed_id,
           [r \in Rows(value) |->
               IF is_column THEN apply_regex(a.regex, Column(value, comparator)[r])
               ELSE apply_regex(a.regex, comparator)])

equals_string_part(a, parsed_id) ==
    LET target == replace_prefix(a.target)
        df == equals_string_part_value(a, parsed_id)
    IN RowMask([r \in Rows(value) |->
                   _check_equality(df, r, target, Str(parsed_id), a.value_is_literal, FALSE)])

(* contains_all, for a comparator that is no list *)
contains_all(a) ==
    LET target == replace_prefix(a.target)
        comparator == replace_prefix(a.comparator)
    IN IF ~InTable(value, comparator) \/ ~InTable(value, target) THEN Error
       ELSE Bool({Column(value, comparator)[r] : r \in Rows(value)}
                     \subseteq {Column(value, target)[r] : r \in Rows(value)})

not_contains_all(a) ==
    IF contains_all(a) = Error THEN Error ELSE Bool(~contains_all(a).bool)

(* sorted(x) == x; sorted() raises when two elements do not compare *)
IsSortable(cells) ==
    \/ Len(cells) <= 1
    \/ \A i \in DOMAIN cells : cells[i].k = "str"
    \/ \A i \in DOMAIN cells : cells[i].k = "num"

IsSorted(cells) == \A i \in 1 .. (Len(cells) - 1) : ~CellLess(cells[i + 1], cells[i])

(* groupby(value).agg(list)[target].map(sorted(x) == x).tolist(), or       *)
(* <<"error">> for what raises on the way                                  *)
ordered_groups(a, build) ==
    LET target == replace_prefix(a.target)
        by == a.comparator
        keys == GroupKeys(value, by)
        x(i) == LET rows == GroupOf(value, RowOrder(value), by, keys[i])
                IN [j \in DOMAIN rows |-> Column(value, target)[rows[j]]]
    IN IF by.k # "str" \/ ~InTable(value, by) THEN <<"error">>
       ELSE IF ~InTable(value, target) \/ target = by THEN <<"error">>
       ELSE IF NRows(value) = 0 /\ build = "untyped" THEN <<"error">>
       ELSE IF \E i \in DOMAIN keys : ~IsSortable(x(i)) THEN <<"error">>
       ELSE [i \in DOMAIN keys |-> PyBool(IsSorted(x(i)))]

is_ordered_set(a, build) ==
    IF ordered_groups(a, build) = <<"error">> THEN Error
    ELSE Bool(~(\E i \in DOMAIN ordered_groups(a, build) :
                    ordered_groups(a, build)[i] = "False"))

is_not_ordered_set(a, build) ==
    IF ordered_groups(a, build) = <<"error">> THEN Error
    ELSE Bool(\E i \in DOMAIN ordered_groups(a, build) :
                  ordered_groups(a, build)[i] = "False")

(* relationship_data.get(key, {}) and the keys of relationship_data *)
relationship_data_get(key) ==
    UNION {relationship_data[i].referents :
               i \in {j \in DOMAIN relationship_data : relationship_data[j].key = key}}

relationship_data_keys ==
    {relationship_data[i].key : i \in DOMAIN relationship_data}

is_valid_reference_among_referents(a) ==
    LET target == replace_prefix(a.target)
    IN IF ~InTable(value, target) THEN Error
       ELSE Mask([r \in Rows(value) |->
                     PyBool(\E k \in relationship_data_keys :
                                Column(value, target)[r] \in relationship_data_get(k))])

(* is_valid_reference: with a context the row function looks the target up *)
(* under the context, and over no rows apply() hands the frame back, which *)
(* pd.Series refuses; without one isin(dict) asks for the keys             *)
is_valid_reference(a) ==
    LET target == replace_prefix(a.target)
        context == replace_prefix(a.context)
    IN IF Truthy(context)
       THEN IF NRows(value) = 0 THEN Error
            ELSE IF ~InTable(value, target) \/ ~InTable(value, context) THEN Error
            ELSE Mask([r \in Rows(value) |->
                          PyBool(Column(value, target)[r]
                                     \in relationship_data_get(Column(value, context)[r]))])
       ELSE IF ~InTable(value, target) THEN Error
       ELSE Mask([r \in Rows(value) |->
                     PyBool(Column(value, target)[r] \in relationship_data_keys)])

compare_target_with_comparator_same_row(df, rows, target, comparator) ==
    [i \in DOMAIN rows |->
        IF i < Len(rows)
        THEN PyBool(Column(df, target)[rows[i]] = Column(df, comparator)[rows[i]])
        ELSE "NA"]

(* compare_target_with_comparator_next_row on the rows of one group: the   *)
(* target without its last row against the comparator without its first,   *)
(* and pandas.NA appended                                                  *)
compare_target_with_comparator_next_row(df, rows, target, comparator) ==
    [i \in DOMAIN rows |->
        IF i < Len(rows)
        THEN PyBool(Column(df, target)[rows[i]] = Column(df, comparator)[rows[i + 1]])
        ELSE "NA"]

(* has_next_corresponding_record, ordered_df being the rows as sorted; a   *)
(* group-by over no rows hands back a frame and explode() raises           *)
has_next_corresponding_record(a, ordered_df) ==
    LET target == replace_prefix(a.target)
        comparator == replace_prefix(a.comparator)
        group_by_column == replace_prefix(a.within)
        order_by_column == replace_prefix(a.ordering)
        keys == GroupKeys(value, group_by_column)
    IN IF ~InTable(value, order_by_column) \/ ~InTable(value, group_by_column) THEN Error
       ELSE IF NRows(value) = 0 THEN Error
       ELSE IF ~InTable(value, target) \/ ~InTable(value, comparator) THEN Error
       ELSE Mask(explode([i \in DOMAIN keys |->
                compare_target_with_comparator_next_row(
                    value, GroupOf(value, ordered_df, group_by_column, keys[i]),
                    target, comparator)]))

(* validate_series_length *)
validate_series_length(ser, min_length) ==
    IF Len(ser) > min_length
    THEN [i \in 1 .. Len(ser) |-> "True"]
    ELSE [i \in 1 .. min_length |-> "False"]

(* present_on_multiple_rows_within: min_count is the comparator, or 1 *)
present_on_multiple_rows_within(a) ==
    LET target == replace_prefix(a.target)
        min_count == IF Truthy(a.comparator) THEN a.comparator.n ELSE 1
        group_by_column == replace_prefix(a.within)
        keys == GroupKeys(value, group_by_column)
    IN IF ~InTable(value, group_by_column) THEN Error
       ELSE IF NRows(value) = 0 THEN Error
       ELSE IF ~InTable(value, target) THEN Error
       ELSE Mask(explode([i \in DOMAIN keys |->
                validate_series_length(
                    GroupOf(value, RowOrder(value), group_by_column, keys[i]), min_count)]))

(* has_different_values: the one answer, once per row *)
has_different_values(a) ==
    LET target == replace_prefix(a.target)
        is_valid == Cardinality({Column(value, target)[r] : r \in Rows(value)}) > 1
    IN IF ~InTable(value, target) THEN Error
       ELSE Mask([r \in Rows(value) |-> PyBool(is_valid)])


(* x[start:stop] of a str: a negative index counts from the end, and both  *)
(* are clipped to the length                                               *)
Clip(i, n) == IF i < 0 THEN (IF n + i < 0 THEN 0 ELSE n + i) ELSE (IF i > n THEN n ELSE i)

PySlice(t, start, stop) == SubSeq(t, Clip(start, Len(t)) + 1, Clip(stop, Len(t)))

(* Series.str.slice(-length) and Series.str.slice(stop=length) of one cell; *)
(* a stop of None is the end of the cell                                   *)
string_part(part_to_validate, length, cell) ==
    IF part_to_validate = "suffix"
    THEN Str(PySlice(cell.s, 0 - length.n, Len(cell.s)))
    ELSE IF length = None THEN cell
    ELSE Str(PySlice(cell.s, 0, length.n))

Series(cells) == [ok |-> TRUE, cells |-> cells]

Raised == [ok |-> FALSE, cells |-> <<>>]

(* _get_string_part_series: KeyError for a target that is no column,       *)
(* ValueError for a cell that is no str, TypeError for -None              *)
_get_string_part_series_unchecked(part_to_validate, length, target) ==
    IF ~InTable(value, target) THEN Raised
    ELSE IF part_to_validate = "suffix" /\ length.k # "num" THEN Raised
    ELSE Series([r \in Rows(value) |->
                    IF Column(value, target)[r].k = "str"
                    THEN string_part(part_to_validate, length, Column(value, target)[r])
                    ELSE NaN])

_get_string_part_series(part_to_validate, length, target) ==
    IF ~InTable(value, target) THEN Raised
    ELSE IF \E r \in Rows(value) : Column(value, target)[r].k # "str" THEN Raised
    ELSE IF part_to_validate = "suffix" /\ length.k # "num" THEN Raised
    ELSE Series([r \in Rows(value) |->
                    string_part(part_to_validate, length, Column(value, target)[r])])

(* the comparator of a string-part operator, after replace_prefix *)
string_part_comparator(a) ==
    IF ~a.value_is_literal THEN replace_prefix(a.comparator) ELSE a.comparator

(* _check_equality_of_string_part: Series.eq, against the cells of a       *)
(* column row by row or against a scalar that is no list; a null equals    *)
(* nothing                                                                 *)
_check_equality_of_string_part(a, part_to_validate, length) ==
    LET target == replace_prefix(a.target)
        comparator == string_part_comparator(a)
        is_column == get_comparator_is_column(comparator, a.value_is_literal)
        series_to_validate == _get_string_part_series(part_to_validate, length, target)
        comparison_data(r) == IF is_column THEN Column(value, comparator)[r] ELSE comparator
    IN IF ~series_to_validate.ok THEN Error
       ELSE Mask([r \in Rows(value) |->
                     PyBool(/\ comparison_data(r).k = "str"
                            /\ series_to_validate.cells[r] = comparison_data(r))])

prefix_equal_to(a) == _check_equality_of_string_part(a, "prefix", a.prefix)

prefix_not_equal_to(a) == Invert(prefix_equal_to(a))

suffix_equal_to(a) == _check_equality_of_string_part(a, "suffix", a.suffix)

suffix_not_equal_to(a) == Invert(suffix_equal_to(a))

(* _value_is_contained_by, after _get_string_part_series: row-local over a *)
(* column of iterables, else Series.isin over a list or a column's values  *)
string_part_is_contained_by(a, part_to_validate, length) ==
    LET target == replace_prefix(a.target)
        comparator == string_part_comparator(a)
        is_column == get_comparator_is_column(comparator, a.value_is_literal)
        series_to_validate == _get_string_part_series(part_to_validate, length, target)
        values ==
            IF is_column
            THEN {Column(value, comparator)[r] : r \in Rows(value)}
            ELSE {Str(comparator.l[i]) : i \in DOMAIN comparator.l}
    IN IF ~series_to_validate.ok THEN Error
       ELSE IF is_column /\ is_column_of_iterables(Column(value, comparator)) = "raises"
       THEN Error
       ELSE IF is_column /\ is_column_of_iterables(Column(value, comparator)) = "True"
       THEN vectorized_is_in(series_to_validate.cells, Column(value, comparator))
       ELSE IF ~is_column /\ comparator.k # "list" THEN Error
       ELSE Mask([r \in Rows(value) |-> PyBool(series_to_validate.cells[r] \in values)])

prefix_is_contained_by(a) == string_part_is_contained_by(a, "prefix", a.prefix)

prefix_is_not_contained_by(a) == Invert(prefix_is_contained_by(a))

suffix_is_contained_by(a) == string_part_is_contained_by(a, "suffix", a.suffix)

suffix_is_not_contained_by(a) == Invert(suffix_is_contained_by(a))

(* pd.isna(cell) *)
isna(cell) == cell.k \in {"null", "nan"}

(* Series.sort_values(ascending, ignore_index=True) of a column whose      *)
(* cells that are not null compare with one another: the nulls come last   *)
(* in either direction                                                     *)
SortedSeries(cells, ascending) ==
    LET n == Len(cells)
        orders == {p \in [1 .. n -> 1 .. n] : \A i, j \in 1 .. n : i # j => p[i] # p[j]}
        sorted(p) ==
            \A i \in 1 .. (n - 1) :
                LET x == cells[p[i]]
                    y == cells[p[i + 1]]
                IN /\ isna(x) => isna(y)
                   /\ (~isna(x) /\ ~isna(y)) =>
                         IF ascending THEN ~CellLess(y, x) ELSE ~CellLess(x, y)
        order == CHOOSE p \in orders : sorted(p)
    IN [i \in 1 .. n |-> cells[order[i]]]

(* the cells that sort_values has to compare *)
NotNull(cells) == SelectSeq(cells, LAMBDA c : ~isna(c))

(* is_ordered_by: an absent order reads "asc"; Series.eq is False at a     *)
(* null; sort_values raises on cells that do not compare                   *)
is_ordered_by_ascending(a) ==
    LET target == replace_prefix(a.target)
        sort_order == IF a.order = None THEN Str(<<"a", "s", "c">>) ELSE a.order
        cells == Column(value, target)
        sorted == SortedSeries(cells, TRUE)
    IN IF sort_order \notin {Str(<<"a", "s", "c">>), Str(<<"d", "s", "c">>)} THEN Error
       ELSE IF ~InTable(value, target) THEN Error
       ELSE IF ~IsSortable(NotNull(cells)) THEN Error
       ELSE Mask([r \in Rows(value) |->
                     PyBool(~isna(cells[r]) /\ ~isna(sorted[r]) /\ cells[r] = sorted[r])])

is_ordered_by(a) ==
    LET target == replace_prefix(a.target)
        sort_order == IF a.order = None THEN Str(<<"a", "s", "c">>) ELSE a.order
        sort_order_bool == sort_order = Str(<<"a", "s", "c">>)
        cells == Column(value, target)
        sorted == SortedSeries(cells, sort_order_bool)
    IN IF sort_order \notin {Str(<<"a", "s", "c">>), Str(<<"d", "s", "c">>)} THEN Error
       ELSE IF ~InTable(value, target) THEN Error
       ELSE IF ~IsSortable(NotNull(cells)) THEN Error
       ELSE Mask([r \in Rows(value) |->
                     PyBool(~isna(cells[r]) /\ ~isna(sorted[r]) /\ cells[r] = sorted[r])])

is_not_ordered_by(a) == Invert(is_ordered_by(a))

---------------------------------------------------------------------------
(* The wrappers the operators are called on *)

AETERM == <<"A", "E", "T", "E", "R", "M">>
AEDECOD == <<"A", "E", "D", "E", "C", "O", "D">>
USUBJID == <<"U", "S", "U", "B", "J", "I", "D">>
AESEQ == <<"A", "E", "S", "E", "Q">>
ABSTRACT_TERM == <<"-", "-", "T", "E", "R", "M">>
ABSTRACT_DECOD == <<"-", "-", "D", "E", "C", "O", "D">>
ABSTRACT_SEQ == <<"-", "-", "S", "E", "Q">>
NO_COLUMN == <<"Z", "Z">>

MaxRows == 2

(* A table of the four columns, out of its rows [a, b, u, s] *)
MkTable(rows) ==
    << [name |-> AETERM, cells |-> [i \in DOMAIN rows |-> rows[i].a]],
       [name |-> AEDECOD, cells |-> [i \in DOMAIN rows |-> rows[i].b]],
       [name |-> USUBJID, cells |-> [i \in DOMAIN rows |-> rows[i].u]],
       [name |-> AESEQ, cells |-> [i \in DOMAIN rows |-> rows[i].s]] >>

TablesOf(rowset) ==
    {MkTable(rows) : rows \in UNION {[1 .. n -> rowset] : n \in 0 .. MaxRows}}

Row(a, b, u, s) == [a |-> a, b |-> b, u |-> u, s |-> s]

(* Tables whose cells may be empty or null, in one group: the operands of  *)
(* a row are equal, differ in case, differ, are both empty or one is       *)
EqRows ==
    {Row(c[1], c[2], Str(<<"U">>), Num(1)) :
        c \in {<<Str(<<"x">>), Str(<<"x">>)>>, <<Str(<<"X">>), Str(<<"x">>)>>,
               <<Str(<<"x">>), Str(<<"y">>)>>, <<Str(<<>>), Str(<<>>)>>,
               <<Str(<<>>), None>>, <<None, None>>, <<None, Str(<<"x">>)>>}}

(* Tables in up to two groups, in any order, the target empty or not *)
GroupRows ==
    [a : {Str(<<"x">>), Str(<<>>)},
     b : {Str(<<"x">>)},
     u : {Str(<<"U">>), Str(<<"V">>)},
     s : {Num(1), Num(2)}]

(* Tables of dates *)
DATE_2020_01 == <<"2", "0", "2", "0", "-", "0", "1">>
DATE_2020_02 == <<"2", "0", "2", "0", "-", "0", "2">>
DATE_2021_01 == <<"2", "0", "2", "1", "-", "0", "1">>

DateRows ==
    [a : {Str(DATE_2020_01), Str(DATE_2020_02), Str(DATE_2021_01)},
     b : {Str(DATE_2020_01)},
     u : {Str(<<"U">>)},
     s : {Num(1)}]

(* The tables of the documented scenarios *)
ClinicalNullTable ==
    MkTable(<< Row(Str(<<"x">>), Str(<<"x">>), Str(<<"U">>), Num(1)),
               Row(Str(<<>>), Str(<<>>), Str(<<"U">>), Num(2)),
               Row(Str(<<"x">>), Str(<<"y">>), Str(<<"U">>), Num(3)) >>)

LagTable ==
    MkTable(<< Row(Num(10), Num(30), Str(<<"U">>), Num(1)),
               Row(Num(20), Num(10), Str(<<"U">>), Num(2)),
               Row(Num(30), Num(20), Str(<<"U">>), Num(3)) >>)

ReferenceTable ==
    MkTable(<< Row(Str(<<"a">>), Str(<<"x">>), Str(<<"S", "1">>), Num(1)),
               Row(Str(<<"c">>), Str(<<"x">>), Str(<<"S", "1">>), Num(2)),
               Row(Str(<<"b">>), Str(<<"x">>), Str(<<"S", "2">>), Num(3)) >>)

PrefixMap == << [prefix |-> <<"-", "-">>, replacement |-> <<"A", "E">>] >>

(* relationship_data: key -> referents, in the dict's order *)
ScenarioRelationshipData ==
    << [key |-> Str(<<"S", "1">>), referents |-> {Str(<<"a">>), Str(<<"b">>)}] >>

RelationshipData ==
    << [key |-> Str(<<"U">>), referents |-> {Str(<<"x">>)}],
       [key |-> Str(<<"x">>), referents |-> {Str(<<"U">>)}] >>

Wrappers ==
    {[value |-> t, relationship_data |-> RelationshipData] :
        t \in TablesOf(EqRows) \cup TablesOf(GroupRows) \cup TablesOf(DateRows)
                 \cup {ClinicalNullTable, LagTable}}
    \cup {[value |-> ReferenceTable, relationship_data |-> ScenarioRelationshipData]}

NumIdle ==
    /\ num_value = 0
    /\ num_op = "init"
    /\ num_arg = None
    /\ num_result = NoResult

TypeIdle ==
    /\ type_name = "none"
    /\ type_value = None
    /\ type_op = "init"
    /\ type_arg = None
    /\ type_result = NoResult

DFIdle ==
    /\ value = EmptyTable
    /\ column_prefix_map = <<>>
    /\ relationship_data = <<>>
    /\ column_codelist_map = <<>>
    /\ codelist_term_maps = <<>>
    /\ value_level_metadata = <<>>
    /\ uuid = 0
    /\ op = "init"
    /\ args = NoArgs
    /\ result = NoResult

(* __init__ *)
Init ==
    /\ \E w \in Wrappers :
          /\ value = w.value
          /\ relationship_data = w.relationship_data
    /\ column_prefix_map = PrefixMap
    /\ column_codelist_map = <<>>
    /\ codelist_term_maps = <<>>
    /\ value_level_metadata = <<>>
    /\ uuid = 0
    /\ op = "init"
    /\ args = NoArgs
    /\ result = NoResult
    /\ NumIdle
    /\ TypeIdle

(* An operator that assigns nothing to the wrapper returns its value *)
Return(name, a, res) ==
    /\ op' = name
    /\ args' = a
    /\ result' = res
    /\ UNCHANGED <<value, column_prefix_map, relationship_data, uuid,
                   column_codelist_map, codelist_term_maps,
                   value_level_metadata>>
    /\ UNCHANGED numvars
    /\ UNCHANGED typevars

TargetArgs == {Str(AETERM), Str(ABSTRACT_TERM), Str(NO_COLUMN)}

ComparatorArgs ==
    {Str(AEDECOD), Str(ABSTRACT_DECOD), Str(<<"x">>), Str(<<>>), None}

EqualityArgs ==
    {[NoArgs EXCEPT !.target = t, !.comparator = c, !.value_is_literal = l] :
        t \in TargetArgs, c \in ComparatorArgs, l \in BOOLEAN}

ExistsArgs ==
    {[NoArgs EXCEPT !.target = t] : t \in TargetArgs \cup {Str(ABSTRACT_DECOD), None}}

call_exists == \E a \in ExistsArgs : Return("exists", a, exists(a))

call_not_exists ==
    \E a \in ExistsArgs, build \in PandasBuild :
        Return("not_exists", a, not_exists(a, build))

call_equal_to == \E a \in EqualityArgs : Return("equal_to", a, equal_to(a))

call_not_equal_to == \E a \in EqualityArgs : Return("not_equal_to", a, not_equal_to(a))

call_equal_to_case_insensitive ==
    \E a \in EqualityArgs :
        Return("equal_to_case_insensitive", a, equal_to_case_insensitive(a))

call_not_equal_to_case_insensitive ==
    \E a \in EqualityArgs :
        Return("not_equal_to_case_insensitive", a, not_equal_to_case_insensitive(a))

RegexArgs ==
    {[NoArgs EXCEPT !.target = t, !.comparator = c] :
        t \in TargetArgs, c \in {Str(<<"x">>), Str(<<>>), Str(<<"X">>), None}}

call_matches_regex == \E a \in RegexArgs : Return("matches_regex", a, matches_regex(a))

call_not_matches_regex ==
    \E a \in RegexArgs : Return("not_matches_regex", a, not_matches_regex(a))

LengthArgs ==
    {[NoArgs EXCEPT !.target = t, !.comparator = c, !.value_is_literal = l] :
        t \in TargetArgs,
        c \in {Str(AEDECOD), Str(ABSTRACT_DECOD), Str(AESEQ), Num(0), Num(1)},
        l \in BOOLEAN}

call_has_equal_length ==
    \E a \in LengthArgs : Return("has_equal_length", a, has_equal_length(a))

call_has_not_equal_length ==
    \E a \in LengthArgs : Return("has_not_equal_length", a, has_not_equal_length(a))

ContainedArgs ==
    {[NoArgs EXCEPT !.target = t, !.comparator = c, !.value_is_literal = l] :
        t \in TargetArgs,
        c \in {Str(AEDECOD), Str(ABSTRACT_DECOD), Str(<<"x">>),
               List(<< <<"x">> >>), List(<< <<"x">>, <<>> >>)},
        l \in BOOLEAN}

call_is_contained_by ==
    \E a \in ContainedArgs : Return("is_contained_by", a, is_contained_by(a))

call_is_not_contained_by ==
    \E a \in ContainedArgs : Return("is_not_contained_by", a, is_not_contained_by(a))

call_empty == \E a \in ExistsArgs : Return("empty", a, empty(a))

call_non_empty == \E a \in ExistsArgs : Return("non_empty", a, non_empty(a))

(* The date operators are called on tables of dates, with a date or a     *)
(* column of dates to compare with                                         *)
DateArgs ==
    {[NoArgs EXCEPT !.target = t, !.comparator = c, !.value_is_literal = l,
                    !.date_component = d] :
        t \in {Str(AETERM), Str(ABSTRACT_TERM)},
        c \in {Str(AEDECOD), Str(ABSTRACT_DECOD), Str(DATE_2020_01)},
        l \in BOOLEAN,
        d \in {Str(<<"y", "e", "a", "r">>), Str(<<"m", "o", "n", "t", "h">>)}}

DatesOnly(a) ==
    /\ NRows(value) > 0
    /\ \A r \in Rows(value) :
          IsDate(Column(value, Str(AETERM))[r]) /\ IsDate(Column(value, Str(AEDECOD))[r])
    /\ IsDate(a.comparator) \/ get_comparator_is_column(replace_prefix(a.comparator),
                                                       a.value_is_literal)

call_date_equal_to ==
    \E a \in DateArgs : DatesOnly(a) /\ Return("date_equal_to", a, date_equal_to(a))

call_date_not_equal_to ==
    \E a \in DateArgs : DatesOnly(a) /\ Return("date_not_equal_to", a, date_not_equal_to(a))

(* An operator that assigns a column to the table: drawn says whether it   *)
(* came as far as drawing a uuid4() name                                   *)
Assign(name, a, res, df, drawn) ==
    /\ op' = name
    /\ args' = a
    /\ result' = res
    /\ value' = df
    /\ uuid' = IF drawn THEN uuid + 1 ELSE uuid
    /\ UNCHANGED <<column_prefix_map, relationship_data,
                   column_codelist_map, codelist_term_maps,
                   value_level_metadata>>
    /\ UNCHANGED numvars
    /\ UNCHANGED typevars

WithinArgs ==
    {[NoArgs EXCEPT !.target = t, !.comparator = c] :
        t \in TargetArgs,
        c \in {Str(USUBJID), Str(AESEQ), Str(ABSTRACT_SEQ), None}}

call_empty_within_except_last_row ==
    \E a \in WithinArgs :
        Assign("empty_within_except_last_row", a, empty_within_except_last_row(a),
               empty_within_except_last_row_value(a, result_uuid4(uuid)),
               empty_within_except_last_row(a) # Error)

call_non_empty_within_except_last_row ==
    \E a \in WithinArgs, build \in PandasBuild :
        Assign("non_empty_within_except_last_row", a,
               non_empty_within_except_last_row(a, build),
               non_empty_within_except_last_row_value(a, build, result_uuid4(uuid)),
               non_empty_within_except_last_row(a, build) # Error)

StringPartArgs ==
    {[NoArgs EXCEPT !.target = t, !.comparator = c, !.value_is_literal = l,
                    !.regex = Str(<<"x">>)] :
        t \in TargetArgs,
        c \in {Str(AEDECOD), Str(ABSTRACT_DECOD), Str(<<"x">>)},
        l \in BOOLEAN}

call_equals_string_part ==
    \E a \in StringPartArgs :
        Assign("equals_string_part", a, equals_string_part(a, uuid4(uuid)),
               equals_string_part_value(a, uuid4(uuid)), TRUE)

ContainsAllArgs ==
    {[NoArgs EXCEPT !.target = t, !.comparator = c] :
        t \in TargetArgs,
        c \in {Str(AEDECOD), Str(ABSTRACT_DECOD), Str(NO_COLUMN), None}}

call_contains_all == \E a \in ContainsAllArgs : Return("contains_all", a, contains_all(a))

call_not_contains_all ==
    \E a \in ContainsAllArgs : Return("not_contains_all", a, not_contains_all(a))

(* a comparator that is a list of column names among the others *)
OrderedSetArgs ==
    WithinArgs
    \cup {[NoArgs EXCEPT !.target = Str(AETERM), !.comparator = List(<<USUBJID>>)]}

call_is_ordered_set ==
    \E a \in OrderedSetArgs, build \in PandasBuild :
        Return("is_ordered_set", a, is_ordered_set(a, build))

call_is_not_ordered_set ==
    \E a \in OrderedSetArgs, build \in PandasBuild :
        Return("is_not_ordered_set", a, is_not_ordered_set(a, build))

ReferenceArgs ==
    {[NoArgs EXCEPT !.target = t, !.context = c] :
        t \in TargetArgs,
        c \in {None, Str(<<>>), Str(USUBJID), Str(NO_COLUMN)}}

call_is_valid_reference ==
    \E a \in ReferenceArgs : Return("is_valid_reference", a, is_valid_reference(a))

NextRecordArgs ==
    {[NoArgs EXCEPT !.target = t, !.comparator = c, !.within = w, !.ordering = o] :
        t \in TargetArgs,
        c \in {Str(AEDECOD), Str(ABSTRACT_DECOD)},
        w \in {Str(USUBJID), None},
        o \in {Str(AESEQ), Str(ABSTRACT_SEQ)}}

call_has_next_corresponding_record ==
    \E a \in NextRecordArgs :
        \E ordered_df \in sort_values(value, replace_prefix(a.ordering)) :
            Return("has_next_corresponding_record", a,
                   has_next_corresponding_record(a, ordered_df))

MultipleRowsArgs ==
    {[NoArgs EXCEPT !.target = t, !.comparator = c, !.within = w] :
        t \in {Str(AETERM), Str(NO_COLUMN)},
        c \in {None, Num(0), Num(1), Num(2)},
        w \in {Str(USUBJID), None}}

call_present_on_multiple_rows_within ==
    \E a \in MultipleRowsArgs :
        Return("present_on_multiple_rows_within", a, present_on_multiple_rows_within(a))

call_has_different_values ==
    \E a \in ExistsArgs : Return("has_different_values", a, has_different_values(a))

(* A wrapper is built for one predicate evaluation: the operators are      *)
(* called on the wrapper as constructed.                                   *)
Fresh == op = "init"

Next ==
    \/ Fresh /\ call_exists
    \/ Fresh /\ call_not_exists
    \/ Fresh /\ call_equal_to
    \/ Fresh /\ call_not_equal_to
    \/ Fresh /\ call_equal_to_case_insensitive
    \/ Fresh /\ call_not_equal_to_case_insensitive
    \/ Fresh /\ call_matches_regex
    \/ Fresh /\ call_not_matches_regex
    \/ Fresh /\ call_has_equal_length
    \/ Fresh /\ call_has_not_equal_length
    \/ Fresh /\ call_is_contained_by
    \/ Fresh /\ call_is_not_contained_by
    \/ Fresh /\ call_empty
    \/ Fresh /\ call_non_empty
    \/ Fresh /\ call_date_equal_to
    \/ Fresh /\ call_date_not_equal_to
    \/ Fresh /\ call_empty_within_except_last_row
    \/ Fresh /\ call_non_empty_within_except_last_row
    \/ Fresh /\ call_equals_string_part
    \/ Fresh /\ call_contains_all
    \/ Fresh /\ call_not_contains_all
    \/ Fresh /\ call_is_ordered_set
    \/ Fresh /\ call_is_not_ordered_set
    \/ Fresh /\ call_is_valid_reference
    \/ Fresh /\ call_has_next_corresponding_record
    \/ Fresh /\ call_present_on_multiple_rows_within
    \/ Fresh /\ call_has_different_values

Spec == Init /\ [][Next]_vars

---------------------------------------------------------------------------
(* One wrapper called again and again: the operators that assign a column  *)
(* to the table among others, until MaxScratch names are drawn             *)

MaxScratch == 2

TwoGroupTable ==
    MkTable(<< Row(Str(<<"x">>), Str(<<"x">>), Str(<<"U">>), Num(1)),
               Row(Str(<<>>), Str(<<"x">>), Str(<<"V">>), Num(1)),
               Row(Str(<<"x">>), Str(<<"x">>), Str(<<"U">>), Num(2)) >>)

FrameTables == {MkTable(<<>>), ClinicalNullTable, TwoGroupTable}

InitFrame ==
    /\ value \in FrameTables
    /\ relationship_data = RelationshipData
    /\ column_prefix_map = PrefixMap
    /\ column_codelist_map = <<>>
    /\ codelist_term_maps = <<>>
    /\ value_level_metadata = <<>>
    /\ uuid = 0
    /\ op = "init"
    /\ args = NoArgs
    /\ result = NoResult
    /\ NumIdle
    /\ TypeIdle

NextFrame ==
    \/ uuid < MaxScratch /\ call_equals_string_part
    \/ uuid < MaxScratch /\ call_empty_within_except_last_row
    \/ uuid < MaxScratch /\ call_non_empty_within_except_last_row
    \/ uuid <= MaxScratch /\ call_exists
    \/ uuid <= MaxScratch /\ call_equal_to
    \/ uuid <= MaxScratch /\ call_empty

SpecFrame == InitFrame /\ [][NextFrame]_vars

---------------------------------------------------------------------------
(* The operators on the parts of a text, on the order of a column, on      *)
(* codelists and on relationships between two columns, each called once on *)
(* a fresh wrapper                                                         *)

(* Tables of texts of up to two characters, with a cell that is no text,   *)
(* beside a text, an empty text or a list                                  *)
PartRows ==
    {Row(c[1], c[2], Str(<<"U">>), Num(1)) :
        c \in {<<Str(<<"a", "b">>), Str(<<"b">>)>>, <<Str(<<"a", "b">>), Str(<<>>)>>,
               <<Str(<<"b">>), Str(<<"b">>)>>, <<Str(<<>>), Str(<<>>)>>,
               <<Num(1), Str(<<"b">>)>>,
               <<Str(<<"a", "b">>), List(<< <<"a">>, <<"b">> >>)>>}}

(* Tables whose AETERM is in any order, with a null or a text among the    *)
(* numbers                                                                 *)
OrderRows ==
    [a : {Num(1), Num(2), None, Str(<<"x">>)},
     b : {Str(<<"x">>)},
     u : {Str(<<"U">>)},
     s : {Num(1)}]

OrderedTable ==
    MkTable(<< Row(Num(1), Str(<<"x">>), Str(<<"U">>), Num(1)),
               Row(Num(2), Str(<<"x">>), Str(<<"U">>), Num(1)),
               Row(Num(3), Str(<<"x">>), Str(<<"U">>), Num(1)) >>)

UnorderedTable ==
    MkTable(<< Row(Num(2), Str(<<"x">>), Str(<<"U">>), Num(1)),
               Row(Num(1), Str(<<"x">>), Str(<<"U">>), Num(1)),
               Row(Num(3), Str(<<"x">>), Str(<<"U">>), Num(1)) >>)

ColumnWrappers ==
    {[value |-> t, column_codelist_map |-> <<>>, codelist_term_maps |-> <<>>] :
        t \in TablesOf(PartRows) \cup TablesOf(OrderRows)
                 \cup {OrderedTable, UnorderedTable}}

InitColumns ==
    /\ \E w \in ColumnWrappers :
          /\ value = w.value
          /\ column_codelist_map = w.column_codelist_map
          /\ codelist_term_maps = w.codelist_term_maps
          /\ value_level_metadata = <<>>
    /\ column_prefix_map = PrefixMap
    /\ relationship_data = <<>>
    /\ uuid = 0
    /\ op = "init"
    /\ args = NoArgs
    /\ result = NoResult
    /\ NumIdle
    /\ TypeIdle

PartLengths == {None, Num(0), Num(1), Num(3)}

PartArgs ==
    {[NoArgs EXCEPT !.target = t, !.comparator = c, !.value_is_literal = l,
                    !.prefix = n, !.suffix = n] :
        t \in {Str(AETERM), Str(ABSTRACT_TERM), Str(NO_COLUMN)},
        c \in {Str(AEDECOD), Str(<<"b">>), Str(<<>>)},
        l \in BOOLEAN,
        n \in PartLengths}

PartListArgs ==
    {[NoArgs EXCEPT !.target = t, !.comparator = c, !.value_is_literal = l,
                    !.prefix = n, !.suffix = n] :
        t \in {Str(AETERM), Str(NO_COLUMN)},
        c \in {Str(AEDECOD), List(<< <<"b">>, <<>> >>), Str(<<"b">>)},
        l \in BOOLEAN,
        n \in PartLengths}

call_prefix_equal_to ==
    \E a \in PartArgs : Return("prefix_equal_to", a, prefix_equal_to(a))

call_prefix_not_equal_to ==
    \E a \in PartArgs : Return("prefix_not_equal_to", a, prefix_not_equal_to(a))

call_suffix_equal_to ==
    \E a \in PartArgs : Return("suffix_equal_to", a, suffix_equal_to(a))

call_suffix_not_equal_to ==
    \E a \in PartArgs : Return("suffix_not_equal_to", a, suffix_not_equal_to(a))

call_prefix_is_contained_by ==
    \E a \in PartListArgs :
        Return("prefix_is_contained_by", a, prefix_is_contained_by(a))

call_prefix_is_not_contained_by ==
    \E a \in PartListArgs :
        Return("prefix_is_not_contained_by", a, prefix_is_not_contained_by(a))

call_suffix_is_contained_by ==
    \E a \in PartListArgs :
        Return("suffix_is_contained_by", a, suffix_is_contained_by(a))

call_suffix_is_not_contained_by ==
    \E a \in PartListArgs :
        Return("suffix_is_not_contained_by", a, suffix_is_not_contained_by(a))

OrderByArgs ==
    {[NoArgs EXCEPT !.target = t, !.order = o] :
        t \in {Str(AETERM), Str(ABSTRACT_TERM), Str(AESEQ), Str(NO_COLUMN)},
        o \in {None, Str(<<"a", "s", "c">>), Str(<<"d", "s", "c">>),
               Str(<<"d", "e", "s", "c">>), Num(1)}}

call_is_ordered_by ==
    \E a \in OrderByArgs : Return("is_ordered_by", a, is_ordered_by(a))

call_is_not_ordered_by ==
    \E a \in OrderByArgs : Return("is_not_ordered_by", a, is_not_ordered_by(a))

NextColumns ==
    \/ Fresh /\ call_prefix_equal_to
    \/ Fresh /\ call_prefix_not_equal_to
    \/ Fresh /\ call_suffix_equal_to
    \/ Fresh /\ call_suffix_not_equal_to
    \/ Fresh /\ call_prefix_is_contained_by
    \/ Fresh /\ call_prefix_is_not_contained_by
    \/ Fresh /\ call_suffix_is_contained_by
    \/ Fresh /\ call_suffix_is_not_contained_by
    \/ Fresh /\ call_is_ordered_set
    \/ Fresh /\ call_is_not_ordered_set
    \/ Fresh /\ call_is_ordered_by
    \/ Fresh /\ call_is_not_ordered_by

SpecColumns == InitColumns /\ [][NextColumns]_vars

---------------------------------------------------------------------------
(* The NumericType wrapper on its own *)

InitNumeric ==
    /\ num_value \in NumRange
    /\ num_op = "init"
    /\ num_arg = None
    /\ num_result = NoResult
    /\ DFIdle
    /\ TypeIdle

NextNumeric ==
    \/ num_equal_to /\ UNCHANGED dfvars
    \/ num_not_equal_to /\ UNCHANGED dfvars
    \/ num_greater_than /\ UNCHANGED dfvars
    \/ num_greater_than_or_equal_to /\ UNCHANGED dfvars
    \/ num_less_than /\ UNCHANGED dfvars
    \/ num_less_than_or_equal_to /\ UNCHANGED dfvars

SpecNumeric == InitNumeric /\ [][NextNumeric]_vars

---------------------------------------------------------------------------
(* The scalar wrappers: StringType, BooleanType, SelectType,               *)
(* SelectMultipleType and GenericType.  The elements of a list payload are *)
(* texts.                                                                  *)

(* Decimal(1), in the units of EPSILON *)
ONE == 2000000

(* Decimal(value) of an int or a float; True and False are the ints 1, 0  *)
Decimal(v) == IF v.k = "bool" THEN Num(v.n * ONE) ELSE Num(v.n)

(* hasattr(value, '__iter__'): a list has it and a str has it *)
HasIter(v) == v.k \in {"list", "str"}

(* for x in value: the elements of a list, the characters of a str *)
Elements(v) ==
    IF v.k = "list" THEN v.l
    ELSE IF v.k = "str" THEN [i \in DOMAIN v.s |-> <<v.s[i]>>]
    ELSE <<>>

(* _assert_valid_value_and_cast of each class: is_valid says whether it    *)
(* returns, cast what it returns                                           *)
StringType_is_valid(v) == ~Truthy(v) \/ v.k = "str"

StringType_cast(v) == IF Truthy(v) THEN v ELSE Str(<<>>)

NumericType_cast(v) == Decimal(v)

BooleanType_is_valid(v) == v.k = "bool"

SelectType_is_valid(v) == HasIter(v)

SelectMultipleType_is_valid(v) == HasIter(v)

GenericType_cast(v) == IF v.k \in {"num", "bool"} THEN Decimal(v) ELSE v

is_valid(cls, v) ==
    CASE cls = "string" -> StringType_is_valid(v)
      [] cls = "numeric" -> NumericType_is_valid(v)
      [] cls = "boolean" -> BooleanType_is_valid(v)
      [] cls = "select" -> SelectType_is_valid(v)
      [] cls = "select_multiple" -> SelectMultipleType_is_valid(v)
      [] cls = "generic" -> TRUE

cast(cls, v) ==
    CASE cls = "string" -> StringType_cast(v)
      [] cls = "numeric" -> NumericType_cast(v)
      [] cls = "generic" -> GenericType_cast(v)
      [] OTHER -> v

(* SelectType._case_insensitive_equal_to, of two str *)
SelectType_case_insensitive_equal_to(value_from_list, other_value) ==
    Lower(value_from_list) = Lower(other_value)

(* SelectType.contains *)
SelectType_contains(v, other_value) ==
    \E i \in DOMAIN Elements(v) :
        SelectType_case_insensitive_equal_to(Elements(v)[i], other_value)

(* SelectMultipleType.shares_exactly_one_element_with: found_one is set by *)
(* the first element of other_value that the payload contains, and a       *)
(* second one returns False                                                *)
SelectMultipleType_shares_exactly_one_element_with(v, other_value) ==
    LET found == {i \in DOMAIN Elements(other_value) :
                     SelectType_contains(v, Elements(other_value)[i])}
    IN  Cardinality(found) = 1

(* The operator registry.  A class body is the set of its attributes: what *)
(* type_operator decorates carries is_operator, a label and an input_type. *)
fn_name_to_pretty_label(name) == <<"pretty label of", name>>

Operator(name, input_type) ==
    [name |-> name, is_operator |-> TRUE, input_type |-> input_type,
     label |-> fn_name_to_pretty_label(name)]

Labelled(name, input_type, label) ==
    [name |-> name, is_operator |-> TRUE, input_type |-> input_type,
     label |-> <<label>>]

Attribute(name) ==
    [name |-> name, is_operator |-> FALSE, input_type |-> "", label |-> <<>>]

ClassBody(cls) ==
    CASE cls = "base" ->
            {Attribute("__init__"), Attribute("_assert_valid_value_and_cast"),
             Attribute("get_all_operators")}
      [] cls = "string" ->
            {Attribute("name"), Attribute("_assert_valid_value_and_cast"),
             Operator("equal_to", "FIELD_TEXT"),
             Operator("not_equal_to", "FIELD_TEXT"),
             Labelled("equal_to_case_insensitive", "FIELD_TEXT",
                      "Equal To (case insensitive)"),
             Operator("starts_with", "FIELD_TEXT"),
             Operator("ends_with", "FIELD_TEXT"),
             Operator("contains", "FIELD_TEXT"),
             Operator("matches_regex", "FIELD_TEXT"),
             Operator("non_empty", "FIELD_NO_INPUT")}
      [] cls = "numeric" ->
            {Attribute("EPSILON"), Attribute("name"),
             Attribute("_assert_valid_value_and_cast"),
             Operator("equal_to", "FIELD_NUMERIC"),
             Operator("not_equal_to", "FIELD_NUMERIC"),
             Operator("greater_than", "FIELD_NUMERIC"),
             Operator("greater_than_or_equal_to", "FIELD_NUMERIC"),
             Operator("less_than", "FIELD_NUMERIC"),
             Operator("less_than_or_equal_to", "FIELD_NUMERIC")}
      [] cls = "boolean" ->
            {Attribute("name"), Attribute("_assert_valid_value_and_cast"),
             Operator("is_true", "FIELD_NO_INPUT"),
             Operator("is_false", "FIELD_NO_INPUT")}
      [] cls = "select" ->
            {Attribute("name"), Attribute("_assert_valid_value_and_cast"),
             Attribute("_case_insensitive_equal_to"),
             Operator("contains", "FIELD_SELECT"),
             Operator("does_not_contain", "FIELD_SELECT")}
      [] cls = "select_multiple" ->
            {Attribute("name"), Attribute("_assert_valid_value_and_cast"),
             Operator("contains_all", "FIELD_SELECT_MULTIPLE"),
             Operator("is_contained_by", "FIELD_SELECT_MULTIPLE"),
             Operator("is_not_contained_by", "FIELD_SELECT_MULTIPLE"),
             Operator("shares_at_least_one_element_with", "FIELD_SELECT_MULTIPLE"),
             Operator("shares_exactly_one_element_with", "FIELD_SELECT_MULTIPLE"),
             Operator("shares_no_elements_with", "FIELD_SELECT_MULTIPLE")}
      [] cls = "generic" ->
            {Attribute("EPSILON"), Attribute("name"),
             Attribute("_assert_valid_value_and_cast"),
             Attribute("equal_to"), Attribute("not_equal_to"),
             Attribute("is_contained_by"),
             Operator("num_equal_to", "FIELD_NUMERIC"),
             Operator("str_equal_to", "FIELD_TEXT"),
             Operator("num_not_equal_to", "FIELD_NUMERIC"),
             Operator("str_not_equal_to", "FIELD_TEXT"),
             Operator("contains", "FIELD_TEXT")}

(* The method resolution order: the class, its bases left to right, and    *)
(* BaseType                                                                *)
MRO(cls) ==
    IF cls = "generic"
    THEN <<"generic", "select_multiple", "select", "string", "numeric",
           "boolean", "base">>
    ELSE <<cls, "base">>

(* inspect.getmembers(cls): every attribute name once, bound to what the   *)
(* first class of the resolution order that has the name binds it to       *)
getmembers(cls) ==
    {m \in UNION {ClassBody(MRO(cls)[i]) : i \in DOMAIN MRO(cls)} :
        \E i \in DOMAIN MRO(cls) :
            /\ m \in ClassBody(MRO(cls)[i])
            /\ \A j \in 1 .. (i - 1) :
                  \A n \in ClassBody(MRO(cls)[j]) : n.name # m.name}

(* BaseType.get_all_operators *)
get_all_operators(cls) ==
    {[name |-> m.name, label |-> m.label, input_type |-> m.input_type] :
        m \in {x \in getmembers(cls) : x.is_operator}}

Catalog(entries) ==
    [kind |-> "catalog", bool |-> FALSE, mask |-> <<>>, entries |-> entries]

Families == {"string", "numeric", "boolean", "select", "select_multiple"}

Classes == Families \cup {"generic"}

MaxList == 2

ElementTexts == {<<"a">>, <<"A">>, <<"b">>}

RECURSIVE ListsOf(_)
ListsOf(n) ==
    IF n = 0 THEN {<<>>}
    ELSE ListsOf(n - 1)
         \cup {Append(l, e) : l \in {x \in ListsOf(n - 1) : Len(x) = n - 1},
                              e \in ElementTexts}

Payloads ==
    {List(l) : l \in ListsOf(MaxList)}
    \cup {None, Str(<<>>), Str(<<"a">>), Str(<<"a", "B">>), Num(0), Num(1),
          PyCell(TRUE), PyCell(FALSE)}

(* BaseType.__init__ *)
new(cls) ==
    \E payload \in Payloads :
        /\ type_name' = cls
        /\ type_op' = "__init__"
        /\ type_arg' = payload
        /\ type_value' = IF is_valid(cls, payload) THEN cast(cls, payload)
                         ELSE None
        /\ type_result' = IF is_valid(cls, payload) THEN NoResult ELSE Error
        /\ UNCHANGED numvars
        /\ UNCHANGED dfvars

(* A call of a type_operator on the wrapper: inner() casts the argument    *)
(* first when assert_type_for_arguments, and a failed cast aborts the call *)
TypeCall(name, a, res) ==
    /\ type_op' = name
    /\ type_arg' = a
    /\ type_result' = res
    /\ UNCHANGED <<type_name, type_value>>
    /\ UNCHANGED numvars
    /\ UNCHANGED dfvars

Constructed(cls) ==
    /\ type_name = cls
    /\ type_op = "__init__"
    /\ type_result.kind # "error"

call_shares_exactly_one_element_with ==
    \E a \in Payloads :
        TypeCall("shares_exactly_one_element_with", a,
                 IF SelectMultipleType_is_valid(a)
                 THEN Bool(SelectMultipleType_shares_exactly_one_element_with(
                               type_value, a))
                 ELSE Error)

call_get_all_operators ==
    \E cls \in Classes :
        /\ type_name' = cls
        /\ type_op' = "get_all_operators"
        /\ type_result' = Catalog(get_all_operators(cls))
        /\ UNCHANGED <<type_value, type_arg>>
        /\ UNCHANGED numvars
        /\ UNCHANGED dfvars

InitTypes ==
    /\ TypeIdle
    /\ NumIdle
    /\ DFIdle

NextTypes ==
    \/ type_name = "none" /\ new("string")
    \/ type_name = "none" /\ new("numeric")
    \/ type_name = "none" /\ new("boolean")
    \/ type_name = "none" /\ new("select")
    \/ type_name = "none" /\ new("select_multiple")
    \/ type_name = "none" /\ new("generic")
    \/ type_name = "none" /\ call_get_all_operators
    \/ Constructed("select_multiple") /\ call_shares_exactly_one_element_with

SpecTypes == InitTypes /\ [][NextTypes]_vars

---------------------------------------------------------------------------
(* The codelist operators.  column_codelist_map is the sequence of its     *)
(* items, a column name and the codelists it may refer to; every map of    *)
(* codelist_term_maps is the set of its items, a codelist with its         *)
(* extensible flag and its allowed terms.                                  *)

(* key in self.column_codelist_map, self.column_codelist_map[key] *)
in_column_codelist_map(key) ==
    \E i \in DOMAIN column_codelist_map : column_codelist_map[i].key = key

column_codelist_map_get(key) ==
    UNION {column_codelist_map[i].codelists :
               i \in {j \in DOMAIN column_codelist_map : column_codelist_map[j].key = key}}

(* valid_codelist_reference from the i-th key of column_prefix_map on: the *)
(* first key whose concrete prefix starts the name and whose generic name  *)
(* is known decides                                                        *)
RECURSIVE valid_codelist_reference_generic(_, _, _)
valid_codelist_reference_generic(i, column_name, codelist) ==
    IF i > Len(column_prefix_map) THEN "True"
    ELSE IF column_name.k # "str" THEN "error"
    ELSE LET generic_column_name ==
                 ReplaceFirst(column_name.s, column_prefix_map[i].replacement,
                              column_prefix_map[i].prefix)
         IN IF /\ StartsWith(column_name.s, column_prefix_map[i].replacement)
               /\ in_column_codelist_map(generic_column_name)
            THEN PyBool(/\ codelist.k = "str"
                        /\ codelist.s \in column_codelist_map_get(generic_column_name))
            ELSE valid_codelist_reference_generic(i + 1, column_name, codelist)

valid_codelist_reference_exact(column_name, codelist) ==
    IF column_name.k = "str" /\ in_column_codelist_map(column_name.s)
    THEN PyBool(/\ codelist.k = "str"
                /\ codelist.s \in column_codelist_map_get(column_name.s))
    ELSE "True"

valid_codelist_reference(column_name, codelist) ==
    IF column_name.k = "str" /\ in_column_codelist_map(column_name.s)
    THEN PyBool(/\ codelist.k = "str"
                /\ codelist.s \in column_codelist_map_get(column_name.s))
    ELSE valid_codelist_reference_generic(1, column_name, codelist)

(* references_correct_codelist: the row function raises KeyError where the *)
(* target or the comparator is no column                                   *)
references_correct_codelist(a) ==
    LET target == replace_prefix(a.target)
        comparator == replace_prefix(a.comparator)
    IN RowMask([r \in Rows(value) |->
                   IF ~InTable(value, target) \/ ~InTable(value, comparator) THEN "error"
                   ELSE valid_codelist_reference(Column(value, target)[r],
                                                 Column(value, comparator)[r])])

does_not_reference_correct_codelist(a) == Invert(references_correct_codelist(a))

(* valid_terms from the i-th map on: "error" is the TypeError of set() on  *)
(* a term list that is no iterable, where the line comes to evaluate it    *)
RECURSIVE valid_terms_from(_, _, _, _)
valid_terms_from(i, valid_term, codelist, terms_list) ==
    IF i > Len(codelist_term_maps) THEN PyBool(valid_term)
    ELSE LET items == {e \in codelist_term_maps[i] :
                          codelist.k = "str" /\ e.codelist = codelist.s}
             item == CHOOSE e \in items : TRUE
             terms == {Elements(terms_list)[j] : j \in DOMAIN Elements(terms_list)}
         IN IF items = {} \/ valid_term \/ item.extensible
            THEN valid_terms_from(i + 1, valid_term \/ items # {}, codelist, terms_list)
            ELSE IF ~HasIter(terms_list) THEN "error"
            ELSE valid_terms_from(i + 1, terms \subseteq item.allowed_terms,
                                  codelist, terms_list)

valid_terms_any_codelist(codelist, terms_list) ==
    valid_terms_from(1, FALSE, codelist, terms_list)

valid_terms(codelist, terms_list) ==
    IF ~Truthy(codelist) THEN "True"
    ELSE valid_terms_from(1, FALSE, codelist, terms_list)

(* uses_valid_codelist_terms *)
uses_valid_codelist_terms(a) ==
    LET target == replace_prefix(a.target)
        comparator == replace_prefix(a.comparator)
    IN RowMask([r \in Rows(value) |->
                   IF ~InTable(value, target) \/ ~InTable(value, comparator) THEN "error"
                   ELSE valid_terms(Column(value, target)[r],
                                    Column(value, comparator)[r])])

does_not_use_valid_codelist_terms(a) == Invert(uses_valid_codelist_terms(a))

(* The wrappers with codelists: AETERM holds the codelist of the row,      *)
(* AEDECOD its terms and USUBJID the name of a variable                    *)
CODELIST_1 == <<"C", "1">>
CODELIST_2 == <<"C", "2">>
CODELIST_3 == <<"C", "3">>
CODELIST_4 == <<"C", "4">>

CodelistRows ==
    {Row(c[1], c[2], c[3], Num(1)) :
        c \in {<<Str(CODELIST_1), List(<< <<"x">>, <<"y">> >>), Str(AEDECOD)>>,
               <<Str(CODELIST_2), List(<< <<"x">>, <<"y">> >>), Str(AEDECOD)>>,
               <<Str(CODELIST_2), List(<< <<"x">> >>), Str(<<"X", "X">>)>>,
               <<Str(CODELIST_4), List(<< <<"x">>, <<"y">> >>), Str(<<"X", "X">>)>>,
               <<Str(CODELIST_3), List(<< <<"x">> >>), Str(AETERM)>>,
               <<Str(<<>>), List(<< <<"x">>, <<"y">> >>), Str(AEDECOD)>>,
               <<None, List(<< <<"x">> >>), Str(<<"X", "X">>)>>}}

ExtensibleTermMap ==
    {[codelist |-> CODELIST_1, extensible |-> TRUE, allowed_terms |-> {<<"x">>}],
     [codelist |-> CODELIST_4, extensible |-> FALSE, allowed_terms |-> {<<"x">>}]}

ClosedTermMap ==
    {[codelist |-> CODELIST_2, extensible |-> FALSE, allowed_terms |-> {<<"x">>}],
     [codelist |-> CODELIST_4, extensible |-> FALSE, allowed_terms |-> {<<"x">>, <<"y">>}]}

ExactCodelistMap == << [key |-> AEDECOD, codelists |-> {CODELIST_1}] >>

GenericCodelistMap == << [key |-> ABSTRACT_DECOD, codelists |-> {CODELIST_2}] >>

BothCodelistMap ==
    << [key |-> AEDECOD, codelists |-> {CODELIST_1}],
       [key |-> ABSTRACT_DECOD, codelists |-> {CODELIST_2}] >>

CodelistMaps ==
    {[column_codelist_map |-> <<>>, codelist_term_maps |-> <<>>],
     [column_codelist_map |-> ExactCodelistMap,
      codelist_term_maps |-> <<ExtensibleTermMap>>],
     [column_codelist_map |-> GenericCodelistMap,
      codelist_term_maps |-> <<ClosedTermMap>>],
     [column_codelist_map |-> BothCodelistMap,
      codelist_term_maps |-> <<ExtensibleTermMap, ClosedTermMap>>]}

InitCodelists ==
    /\ value \in TablesOf(CodelistRows)
    /\ \E m \in CodelistMaps :
          /\ column_codelist_map = m.column_codelist_map
          /\ codelist_term_maps = m.codelist_term_maps
          /\ value_level_metadata = <<>>
    /\ column_prefix_map = PrefixMap
    /\ relationship_data = <<>>
    /\ uuid = 0
    /\ op = "init"
    /\ args = NoArgs
    /\ result = NoResult
    /\ NumIdle
    /\ TypeIdle

CodelistArgs ==
    {[NoArgs EXCEPT !.target = t, !.comparator = c] :
        t \in {Str(AETERM), Str(ABSTRACT_TERM), Str(USUBJID), Str(NO_COLUMN)},
        c \in {Str(AEDECOD), Str(AETERM)}}

call_references_correct_codelist ==
    \E a \in CodelistArgs :
        Return("references_correct_codelist", a, references_correct_codelist(a))

call_does_not_reference_correct_codelist ==
    \E a \in CodelistArgs :
        Return("does_not_reference_correct_codelist", a,
               does_not_reference_correct_codelist(a))

call_uses_valid_codelist_terms ==
    \E a \in CodelistArgs :
        Return("uses_valid_codelist_terms", a, uses_valid_codelist_terms(a))

call_does_not_use_valid_codelist_terms ==
    \E a \in CodelistArgs :
        Return("does_not_use_valid_codelist_terms", a,
               does_not_use_valid_codelist_terms(a))

NextCodelists ==
    \/ Fresh /\ call_references_correct_codelist
    \/ Fresh /\ call_does_not_reference_correct_codelist
    \/ Fresh /\ call_uses_valid_codelist_terms
    \/ Fresh /\ call_does_not_use_valid_codelist_terms

SpecCodelists == InitCodelists /\ [][NextCodelists]_vars

---------------------------------------------------------------------------
(* The one-to-one relationship between two columns *)

(* self.value[[target, comparator]].drop_duplicates(): the pairs of the    *)
(* table, each once                                                        *)
drop_duplicates(target, comparator) ==
    {<<Column(value, target)[r], Column(value, comparator)[r]>> : r \in Rows(value)}

(* the rows as they stand, a pair as often as it is repeated *)
keep_duplicates(target, comparator) ==
    {<<Column(value, target)[r], Column(value, comparator)[r], r>> : r \in Rows(value)}

(* set(df[df[column].duplicated(keep=False)][column]) for the i-th column  *)
(* of the pairs                                                            *)
duplicated_values(pairs, i) ==
    {p[i] : p \in {q \in pairs : \E other \in pairs : other # q /\ other[i] = q[i]}}

(* is_not_unique_relationship, for a comparator that names a column other  *)
(* than the target; a list comparator or a name that is no column raises   *)
is_not_unique_relationship_of_rows(a) ==
    LET target == replace_prefix(a.target)
        comparator == replace_prefix(a.comparator)
        df_with_duplicates == keep_duplicates(target, comparator)
    IN IF ~InTable(value, target) \/ ~InTable(value, comparator) THEN Error
       ELSE Mask([r \in Rows(value) |->
                     PyBool(\/ Column(value, comparator)[r]
                                   \in duplicated_values(df_with_duplicates, 2)
                            \/ Column(value, target)[r]
                                   \in duplicated_values(df_with_duplicates, 1))])

is_not_unique_relationship(a) ==
    LET target == replace_prefix(a.target)
        comparator == replace_prefix(a.comparator)
        df_without_duplicates == drop_duplicates(target, comparator)
    IN IF ~InTable(value, target) \/ ~InTable(value, comparator) THEN Error
       ELSE Mask([r \in Rows(value) |->
                     PyBool(\/ Column(value, comparator)[r]
                                   \in duplicated_values(df_without_duplicates, 2)
                            \/ Column(value, target)[r]
                                   \in duplicated_values(df_without_duplicates, 1))])

(* is_unique_relationship: over no rows the mask is pd.Series([]), float64 *)
(* in the builds where an empty Series is, and float64 has no ~            *)
is_unique_relationship(a, build) ==
    IF NRows(value) = 0 /\ build = "untyped" /\ is_not_unique_relationship(a) # Error
    THEN Error
    ELSE Invert(is_not_unique_relationship(a))

PairRows ==
    [a : {Str(<<"1">>), Str(<<"2">>)},
     b : {Str(<<"A">>), Str(<<"B">>)},
     u : {Str(<<"U">>)},
     s : {Num(1)}]

(* the datasets of the docstring *)
ValidDataset ==
    MkTable(<< Row(Str(<<"1">>), Str(<<"A">>), Str(<<"U">>), Num(1)),
               Row(Str(<<"2">>), Str(<<"B">>), Str(<<"U">>), Num(1)),
               Row(Str(<<"3">>), Str(<<"C">>), Str(<<"U">>), Num(1)),
               Row(Str(<<"1">>), Str(<<"A">>), Str(<<"U">>), Num(1)),
               Row(Str(<<"2">>), Str(<<"B">>), Str(<<"U">>), Num(1)) >>)

InvalidDataset ==
    MkTable(<< Row(Str(<<"1">>), Str(<<"A">>), Str(<<"U">>), Num(1)),
               Row(Str(<<"2">>), Str(<<"A">>), Str(<<"U">>), Num(1)),
               Row(Str(<<"3">>), Str(<<"C">>), Str(<<"U">>), Num(1)) >>)

InitRelationship ==
    /\ value \in TablesOf(PairRows) \cup {ValidDataset, InvalidDataset}
    /\ column_prefix_map = PrefixMap
    /\ relationship_data = <<>>
    /\ column_codelist_map = <<>>
    /\ codelist_term_maps = <<>>
    /\ value_level_metadata = <<>>
    /\ uuid = 0
    /\ op = "init"
    /\ args = NoArgs
    /\ result = NoResult
    /\ NumIdle
    /\ TypeIdle

RelationshipArgs ==
    {[NoArgs EXCEPT !.target = t, !.comparator = c] :
        t \in {Str(AETERM), Str(ABSTRACT_TERM), Str(NO_COLUMN)},
        c \in {Str(AEDECOD), Str(ABSTRACT_DECOD), Str(USUBJID), None}}

call_is_not_unique_relationship ==
    \E a \in RelationshipArgs :
        Return("is_not_unique_relationship", a, is_not_unique_relationship(a))

call_is_unique_relationship ==
    \E a \in RelationshipArgs, build \in PandasBuild :
        Return("is_unique_relationship", a, is_unique_relationship(a, build))

NextRelationship ==
    \/ Fresh /\ call_is_not_unique_relationship
    \/ Fresh /\ call_is_unique_relationship

SpecRelationship == InitRelationship /\ [][NextRelationship]_vars

---------------------------------------------------------------------------
(* matches_regex and not_matches_regex on cells where the pattern stands   *)
(* at the start, further on, or nowhere                                    *)
SearchRows ==
    {Row(a, Str(<<"x">>), Str(<<"U">>), Num(1)) :
        a \in {Str(<<"x">>), Str(<<"x", "y">>), Str(<<"y", "x">>), Str(<<"y">>),
               Str(<<>>), None}}

InitSearch ==
    /\ value \in TablesOf(SearchRows)
    /\ column_prefix_map = PrefixMap
    /\ relationship_data = <<>>
    /\ column_codelist_map = <<>>
    /\ codelist_term_maps = <<>>
    /\ value_level_metadata = <<>>
    /\ uuid = 0
    /\ op = "init"
    /\ args = NoArgs
    /\ result = NoResult
    /\ NumIdle
    /\ TypeIdle

NextSearch ==
    \/ Fresh /\ call_matches_regex
    \/ Fresh /\ call_not_matches_regex

SpecSearch == InitSearch /\ [][NextSearch]_vars

---------------------------------------------------------------------------

(* replace_prefix on its own, under maps of no key, one key and two keys   *)
(* of which one is the start of the other, in both orders of the dict      *)
Returned(v) == [kind |-> "value", bool |-> FALSE, mask |-> <<>>, value |-> v]

PrefixMaps ==
    {<<>>,
     PrefixMap,
     << [prefix |-> <<"-">>, replacement |-> <<"X">>],
        [prefix |-> <<"-", "-">>, replacement |-> <<"A", "E">>] >>,
     << [prefix |-> <<"-", "-">>, replacement |-> <<"A", "E">>],
        [prefix |-> <<"-">>, replacement |-> <<"X">>] >>,
     << [prefix |-> <<"A">>, replacement |-> <<"B">>],
        [prefix |-> <<"-", "-">>, replacement |-> <<"A", "E">>] >>}

PrefixRows == {Row(Str(<<"x">>), Str(<<"x">>), Str(<<"U">>), Num(1))}

InitPrefix ==
    /\ value \in TablesOf(PrefixRows)
    /\ column_prefix_map \in PrefixMaps
    /\ relationship_data = <<>>
    /\ column_codelist_map = <<>>
    /\ codelist_term_maps = <<>>
    /\ value_level_metadata = <<>>
    /\ uuid = 0
    /\ op = "init"
    /\ args = NoArgs
    /\ result = NoResult
    /\ NumIdle
    /\ TypeIdle

PrefixArgs ==
    {[NoArgs EXCEPT !.target = t] :
        t \in {Str(ABSTRACT_TERM), Str(AETERM), Str(<<"-", "T", "E", "R", "M">>),
               Str(<<"T", "-", "-">>), Str(<<"-", "-", "-", "-">>),
               Str(<<"A", "A">>), Str(<<>>), None, Num(1)}}

call_replace_prefix ==
    \E a \in PrefixArgs : Return("replace_prefix", a, Returned(replace_prefix(a.target)))

NextPrefix ==
    \/ Fresh /\ call_replace_prefix
    \/ Fresh /\ call_exists

SpecPrefix == InitPrefix /\ [][NextPrefix]_vars

---------------------------------------------------------------------------

(* The operators that take value_is_literal, on cells that hold the name   *)
(* of a column or a date, under a map that rewrites the start of a column  *)
(* name and under one that rewrites the start of a date                    *)
ComparatorRows ==
    {Row(a, b, Str(<<"U">>), Num(1)) :
        a \in {Str(AEDECOD), Str(<<"x">>), Str(DATE_2020_01)},
        b \in {Str(<<"x">>), Str(DATE_2020_01), Str(DATE_2021_01)}}

DatePrefixMap ==
    << [prefix |-> <<"2", "0", "2", "0">>, replacement |-> <<"2", "0", "2", "1">>] >>

InitComparator ==
    /\ value \in TablesOf(ComparatorRows)
    /\ column_prefix_map \in {PrefixMap, DatePrefixMap}
    /\ relationship_data = <<>>
    /\ column_codelist_map = <<>>
    /\ codelist_term_maps = <<>>
    /\ value_level_metadata = <<>>
    /\ uuid = 0
    /\ op = "init"
    /\ args = NoArgs
    /\ result = NoResult
    /\ NumIdle
    /\ TypeIdle

NextComparator ==
    \/ Fresh /\ call_equal_to
    \/ Fresh /\ call_not_equal_to
    \/ Fresh /\ call_date_equal_to
    \/ Fresh /\ call_date_not_equal_to

SpecComparator == InitComparator /\ [][NextComparator]_vars

---------------------------------------------------------------------------

(* pd.to_numeric(errors="coerce") on one cell: a number stays, a text of   *)
(* digits is read as the number, a boolean counts as 0 or 1, everything    *)
(* else is not-a-number                                                    *)
RECURSIVE ParseInt(_)
ParseInt(t) ==
    IF t = <<>> THEN 0
    ELSE 10 * ParseInt(SubSeq(t, 1, Len(t) - 1))
         + (CHOOSE d \in 0 .. 9 : ToString(d) = t[Len(t)])

to_numeric(cell) ==
    IF cell.k = "num" THEN cell
    ELSE IF cell.k = "bool" THEN Num(cell.n)
    ELSE IF /\ cell.k = "str"
            /\ cell.s # <<>>
            /\ \A i \in DOMAIN cell.s : \E d \in 0 .. 9 : ToString(d) = cell.s[i]
    THEN Num(ParseInt(cell.s))
    ELSE NaN

(* target_column <operator> comparison_data under np.where: the target is  *)
(* coerced, the comparator is coerced where it is a column; a text that is *)
(* no column stays a text and the comparison of numbers with it raises     *)
(* TypeError; against None every row is False                              *)
numeric_comparison(a, operator) ==
    LET target == replace_prefix(a.target)
        comparator ==
            IF ~a.value_is_literal THEN replace_prefix(a.comparator) ELSE a.comparator
        is_column == get_comparator_is_column(comparator, a.value_is_literal)
        left(r) == to_numeric(Column(value, target)[r])
        right(r) == IF is_column THEN to_numeric(Column(value, comparator)[r]) ELSE comparator
        holds(x, y) ==
            CASE operator = "lt" -> x < y
              [] operator = "le" -> x <= y
              [] operator = "ge" -> x >= y
              [] operator = "gt" -> x > y
    IN IF ~InTable(value, target) THEN Error
       ELSE IF ~is_column /\ comparator.k \notin {"num", "null"} THEN Error
       ELSE Mask([r \in Rows(value) |->
                     PyBool(/\ left(r).k = "num"
                            /\ right(r).k = "num"
                            /\ holds(left(r).n, right(r).n))])

less_than(a) == numeric_comparison(a, "lt")

less_than_or_equal_to(a) == numeric_comparison(a, "le")

greater_than_or_equal_to(a) == numeric_comparison(a, "ge")

greater_than(a) == numeric_comparison(a, "gt")

(* The ordering operators on columns of numbers, texts of digits, other    *)
(* texts and nulls, against such a column, a number, a text or None; the   *)
(* tables have at least one row                                            *)
OrderingRows ==
    {Row(a, b, Str(<<"U">>), Num(1)) :
        a \in {Num(1), Num(3), Str(<<"3">>), Str(<<"x">>), None},
        b \in {Num(2), Str(<<"x">>)}}

InitOrdering ==
    /\ value \in {t \in TablesOf(OrderingRows) : NRows(t) > 0}
    /\ column_prefix_map = PrefixMap
    /\ relationship_data = <<>>
    /\ column_codelist_map = <<>>
    /\ codelist_term_maps = <<>>
    /\ value_level_metadata = <<>>
    /\ uuid = 0
    /\ op = "init"
    /\ args = NoArgs
    /\ result = NoResult
    /\ NumIdle
    /\ TypeIdle

OrderingArgs ==
    {[NoArgs EXCEPT !.target = t, !.comparator = c, !.value_is_literal = l] :
        t \in TargetArgs,
        c \in {Str(AEDECOD), Str(ABSTRACT_DECOD), Str(<<"x">>), Str(<<"2">>), Num(2), None},
        l \in BOOLEAN}

call_less_than == \E a \in OrderingArgs : Return("less_than", a, less_than(a))

call_less_than_or_equal_to ==
    \E a \in OrderingArgs : Return("less_than_or_equal_to", a, less_than_or_equal_to(a))

call_greater_than_or_equal_to ==
    \E a \in OrderingArgs :
        Return("greater_than_or_equal_to", a, greater_than_or_equal_to(a))

call_greater_than == \E a \in OrderingArgs : Return("greater_than", a, greater_than(a))

NextOrdering ==
    \/ Fresh /\ call_less_than
    \/ Fresh /\ call_less_than_or_equal_to
    \/ Fresh /\ call_greater_than_or_equal_to
    \/ Fresh /\ call_greater_than

SpecOrdering == InitOrdering /\ [][NextOrdering]_vars

---------------------------------------------------------------------------

(* DataFrame.filter(regex = "^" + target + "\d+$"): the columns whose name *)
(* is the target followed by digits, in the table's order                  *)
filter_regex(df, target) ==
    SelectSeq(df, LAMBDA column :
        /\ target.k = "str"
        /\ Len(column.name) > Len(target.s)
        /\ StartsWith(column.name, target.s)
        /\ \A i \in Len(target.s) + 1 .. Len(column.name) :
              \E d \in 0 .. 9 : ToString(d) = column.name[i])

(* next_column_exists_and_previous_is_null(row), the row as the cells of   *)
(* the additional columns: the next cell is asked whether it is None only  *)
next_column_exists_and_previous_is_null(row) ==
    \E index \in DOMAIN row :
        /\ IsNull(row[index])
        /\ index + 1 <= Len(row)
        /\ row[index + 1] # None

additional_columns_empty(a) ==
    LET target == replace_prefix(a.target)
        df == filter_regex(value, target)
    IN Mask([r \in Rows(value) |->
                PyBool(next_column_exists_and_previous_is_null(
                           [i \in DOMAIN df |-> df[i].cells[r]]))])

additional_columns_not_empty(a) == Invert(additional_columns_empty(a))

(* Tables of a column AETERM and its additional columns AETERM1, AETERM2   *)
(* and AETERM3, each cell a text, the empty text or null                   *)
AdditionalRows ==
    [1 .. 3 -> {Str(<<"x">>), Str(<<>>), None}]

AdditionalTables ==
    {<< [name |-> AETERM, cells |-> [r \in DOMAIN rows |-> Str(<<"x">>)]] >>
     \o [i \in 1 .. 3 |->
            [name |-> AETERM \o <<ToString(i)>>,
             cells |-> [r \in DOMAIN rows |-> rows[r][i]]]]
     \o << [name |-> AEDECOD, cells |-> [r \in DOMAIN rows |-> Str(<<>>)]] >> :
        rows \in UNION {[1 .. n -> AdditionalRows] : n \in 0 .. MaxRows}}

InitAdditional ==
    /\ value \in AdditionalTables
    /\ column_prefix_map = PrefixMap
    /\ relationship_data = <<>>
    /\ column_codelist_map = <<>>
    /\ codelist_term_maps = <<>>
    /\ value_level_metadata = <<>>
    /\ uuid = 0
    /\ op = "init"
    /\ args = NoArgs
    /\ result = NoResult
    /\ NumIdle
    /\ TypeIdle

(* The operators are called with a target that has additional columns *)
AdditionalArgs ==
    {[NoArgs EXCEPT !.target = t] : t \in {Str(AETERM), Str(ABSTRACT_TERM)}}

call_additional_columns_empty ==
    \E a \in AdditionalArgs :
        Return("additional_columns_empty", a, additional_columns_empty(a))

call_additional_columns_not_empty ==
    \E a \in AdditionalArgs :
        Return("additional_columns_not_empty", a, additional_columns_not_empty(a))

NextAdditional ==
    \/ Fresh /\ call_additional_columns_empty
    \/ Fresh /\ call_additional_columns_not_empty

SpecAdditional == InitAdditional /\ [][NextAdditional]_vars

---------------------------------------------------------------------------

(* A row predicate of a value-level-metadata record, called on row r: a    *)
(* test of the cell of AETERM                                              *)
row_predicate(predicate, r) ==
    LET cell == Column(value, Str(AETERM))[r]
    IN CASE predicate = "any" -> TRUE
         [] predicate = "is x" -> cell = Str(<<"x">>)
         [] predicate = "text" -> cell.k = "str"
         [] predicate = "number" -> cell.k = "num"
         [] predicate = "one character" -> cell.k = "str" /\ Len(cell.s) <= 1
         [] predicate = "two characters" -> cell.k = "str" /\ Len(cell.s) <= 2

(* results = False, then results |= the row-wise filter and check of every *)
(* record, then results.values: with no record results is still the bool   *)
(* False, which has no values                                              *)
value_level_metadata_results(check, conformant) ==
    IF value_level_metadata = <<>> THEN Error
    ELSE Mask([r \in Rows(value) |->
                  PyBool(\E i \in DOMAIN value_level_metadata :
                            /\ row_predicate(value_level_metadata[i].filter, r)
                            /\ row_predicate(value_level_metadata[i][check], r) = conformant)])

non_conformant_value_data_type(a) == value_level_metadata_results("type_check", FALSE)

non_conformant_value_length(a) == value_level_metadata_results("length_check", FALSE)

conformant_value_data_type(a) == value_level_metadata_results("type_check", TRUE)

conformant_value_length(a) == value_level_metadata_results("length_check", TRUE)

(* Wrappers with no, one or more value-level-metadata records, on tables   *)
(* of at least one row                                                     *)
MetadataRows ==
    {Row(a, Str(<<"x">>), Str(<<"U">>), Num(1)) :
        a \in {Str(<<"x">>), Str(<<"x", "y", "z">>), Num(1)}}

MetadataRecords ==
    [filter : {"any", "is x"},
     type_check : {"text", "number"},
     length_check : {"one character", "two characters"}]

InitMetadata ==
    /\ value \in {t \in TablesOf(MetadataRows) : NRows(t) > 0}
    /\ value_level_metadata \in UNION {[1 .. n -> MetadataRecords] : n \in 0 .. MaxList}
    /\ column_prefix_map = PrefixMap
    /\ relationship_data = <<>>
    /\ column_codelist_map = <<>>
    /\ codelist_term_maps = <<>>
    /\ uuid = 0
    /\ op = "init"
    /\ args = NoArgs
    /\ result = NoResult
    /\ NumIdle
    /\ TypeIdle

call_non_conformant_value_data_type ==
    Return("non_conformant_value_data_type", NoArgs, non_conformant_value_data_type(NoArgs))

call_non_conformant_value_length ==
    Return("non_conformant_value_length", NoArgs, non_conformant_value_length(NoArgs))

call_conformant_value_data_type ==
    Return("conformant_value_data_type", NoArgs, conformant_value_data_type(NoArgs))

call_conformant_value_length ==
    Return("conformant_value_length", NoArgs, conformant_value_length(NoArgs))

NextMetadata ==
    \/ Fresh /\ call_non_conformant_value_data_type
    \/ Fresh /\ call_non_conformant_value_length
    \/ Fresh /\ call_conformant_value_data_type
    \/ Fresh /\ call_conformant_value_length

SpecMetadata == InitMetadata /\ [][NextMetadata]_vars

---------------------------------------------------------------------------

(* GenericType on its own: one wrapper, called again and again.            *)

(* [value] of a scalar: a list of the one text, or the list of the one     *)
(* Decimal, of the one None                                                *)
list_of(v) ==
    CASE v.k = "str" -> List(<<v.s>>)
      [] v.k = "num" -> [k |-> "list of decimal", s |-> <<>>, n |-> v.n, l |-> <<>>]
      [] OTHER -> [k |-> "list of none", s |-> <<>>, n |-> 0, l |-> <<>>]

(* num_equal_to and str_equal_to, the argument cast by inner(): Decimal    *)
(* minus what is no number raises TypeError                                *)
GenericType_num_equal_to(v, other_numeric) ==
    IF GenericType_cast(other_numeric).k # "num" THEN Error
    ELSE Bool(abs(v.n - GenericType_cast(other_numeric).n) <= EPSILON)

GenericType_str_equal_to(v, other_string) == Bool(v = GenericType_cast(other_string))

GenericType_equal_to_as_string(v, other) == GenericType_str_equal_to(v, other)

(* equal_to: isinstance(self.value, Decimal) decides *)
GenericType_equal_to(v, other) ==
    IF v.k = "num" THEN GenericType_num_equal_to(v, other)
    ELSE GenericType_str_equal_to(v, other)

(* not_equal_to, through num_not_equal_to and str_not_equal_to *)
GenericType_not_equal_to(v, other) ==
    IF v.k = "num"
    THEN IF GenericType_cast(other).k # "num" THEN Error
         ELSE Bool(abs(v.n - GenericType_cast(other).n) > EPSILON)
    ELSE Bool(v # GenericType_cast(other))

(* contains: other_string in self.value, on a str the search for a text,   *)
(* on a list the membership, on a Decimal or None a TypeError              *)
GenericType_contains(v, other_string) ==
    LET other == GenericType_cast(other_string)
    IN CASE v.k = "str" ->
              IF other.k # "str" THEN Error
              ELSE Bool(\E i \in 1 .. Len(v.s) + 1 :
                           /\ i + Len(other.s) - 1 <= Len(v.s)
                           /\ SubSeq(v.s, i, i + Len(other.s) - 1) = other.s)
         [] v.k = "list" -> Bool(other.k = "str" /\ \E i \in DOMAIN v.l : v.l[i] = other.s)
         [] v.k = "list of decimal" -> Bool(other.k = "num" /\ other.n = v.n)
         [] v.k = "list of none" -> Bool(other.k = "null")
         [] OTHER -> Error

(* is_contained_by: what it leaves in self.value ... *)
GenericType_is_contained_by_value(v) == IF v.k = "list" THEN v ELSE list_of(v)

(* ... and what SelectMultipleType.is_contained_by returns on it:          *)
(* SelectMultipleType(other_value).contains_all(self.value)                *)
GenericType_is_contained_by(v, other_value) ==
    LET stored == GenericType_is_contained_by_value(v)
    IN IF ~SelectMultipleType_is_valid(other_value) THEN Error
       ELSE IF stored.k = "list"
       THEN Bool(\A i \in DOMAIN stored.l : SelectType_contains(other_value, stored.l[i]))
       ELSE Bool(FALSE)

GenericArgs ==
    {Str(<<"a">>), Str(<<"a", "B">>), Str(<<>>), Num(0), Num(2), Num(3), None,
     List(<<<<"a">>>>), List(<<<<"a">>, <<"b">>>>)}

Built(cls) == type_name = cls /\ ~(type_op = "__init__" /\ type_result.kind = "error")

call_generic_equal_to ==
    \E a \in GenericArgs : TypeCall("equal_to", a, GenericType_equal_to(type_value, a))

call_generic_not_equal_to ==
    \E a \in GenericArgs :
        TypeCall("not_equal_to", a, GenericType_not_equal_to(type_value, a))

call_generic_contains ==
    \E a \in GenericArgs : TypeCall("contains", a, GenericType_contains(type_value, a))

call_generic_is_contained_by ==
    \E a \in GenericArgs :
        /\ type_op' = "is_contained_by"
        /\ type_arg' = a
        /\ type_value' = GenericType_is_contained_by_value(type_value)
        /\ type_result' = GenericType_is_contained_by(type_value, a)
        /\ UNCHANGED type_name
        /\ UNCHANGED numvars
        /\ UNCHANGED dfvars

NextGeneric ==
    \/ type_name = "none" /\ new("generic")
    \/ Built("generic") /\ call_generic_equal_to
    \/ Built("generic") /\ call_generic_not_equal_to
    \/ Built("generic") /\ call_generic_contains
    \/ Built("generic") /\ call_generic_is_contained_by

SpecGeneric == InitTypes /\ [][NextGeneric]_vars

---------------------------------------------------------------------------

(* C1: n.equal_to(v) is true iff |n - v| <= 1e-6, the boundary included (a *)
(* difference of exactly 1e-6 is equal, one of 1e-5 is not), and           *)
(* n.not_equal_to(v) is the negation of n.equal_to(v).                     *)
C1_Within == (num_value - num_arg.n) \in (0 - 2) .. 2

C1_EqualToTolerance ==
    /\ (num_op = "equal_to" /\ num_arg.k = "num") =>
           /\ num_result.kind = "bool"
           /\ num_result.bool <=> C1_Within
           /\ (abs(num_value - num_arg.n) = 2 => num_result.bool)
           /\ (abs(num_value - num_arg.n) = 20 => ~num_result.bool)
    /\ (num_op = "not_equal_to" /\ num_arg.k = "num") =>
           /\ num_result.kind = "bool"
           /\ num_result.bool <=> ~C1_Within
           /\ num_result.bool <=> ~NumericType_equal_to(num_value, num_arg.n)

C1_Witness ==
    /\ num_op = "equal_to"
    /\ num_arg.k = "num"
    /\ num_value - num_arg.n = 2
    /\ num_result = Bool(TRUE)

(* C7: greater_than iff (a - b) > 1e-6, less_than iff (b - a) > 1e-6, the  *)
(* or-equal variants are the disjunction with equal_to, and exactly one of *)
(* less_than, equal_to, greater_than holds for every pair.                 *)
C7_Diff == num_value - num_arg.n

C7_Ordering ==
    num_arg.k = "num" =>
        /\ num_op = "greater_than" => num_result = Bool(C7_Diff > 2)
        /\ num_op = "less_than" => num_result = Bool(0 - C7_Diff > 2)
        /\ num_op = "greater_than_or_equal_to" =>
               num_result = Bool(C7_Diff > 2 \/ C7_Diff \in (0 - 2) .. 2)
        /\ num_op = "less_than_or_equal_to" =>
               num_result = Bool(0 - C7_Diff > 2 \/ C7_Diff \in (0 - 2) .. 2)
        /\ Cardinality({p \in {"lt", "eq", "gt"} :
               \/ p = "lt" /\ NumericType_less_than(num_value, num_arg.n)
               \/ p = "eq" /\ NumericType_equal_to(num_value, num_arg.n)
               \/ p = "gt" /\ NumericType_greater_than(num_value, num_arg.n)}) = 1

C7_Witness ==
    /\ num_op = "greater_than_or_equal_to"
    /\ num_arg.k = "num"
    /\ C7_Diff = 2
    /\ num_result = Bool(TRUE)

(* C2: at a row where both operands are empty (empty string or null),     *)
(* equal_to, not_equal_to and their case-insensitive variants all yield    *)
(* false; at every other row equal_to yields A == B and not_equal_to      *)
(* yields A != B.  A = ["x", "", "x"], B = ["x", "", "y"] gives            *)
(* [true, false, false] and [false, false, true].                          *)
C2_Empty(x) == x.k = "null" \/ (x.k = "str" /\ Len(x.s) = 0)

C2_OnTarget == args.target \in {Str(AETERM), Str(ABSTRACT_TERM)}

C2_Operand(r) ==
    IF ~args.value_is_literal /\ args.comparator \in {Str(AEDECOD), Str(ABSTRACT_DECOD)}
    THEN Column(value, Str(AEDECOD))[r]
    ELSE args.comparator

C2_Text(x) == x.k \in {"str", "null"}

C2_ClinicalNullRule ==
    C2_OnTarget =>
        LET A == Column(value, Str(AETERM))
        IN /\ op \in {"equal_to", "not_equal_to"} =>
                 /\ result.kind = "mask"
                 /\ DOMAIN result.mask = Rows(value)
                 /\ \A r \in Rows(value) :
                       result.mask[r] =
                           IF C2_Empty(A[r]) /\ C2_Empty(C2_Operand(r)) THEN "False"
                           ELSE IF op = "equal_to" THEN PyBool(A[r] = C2_Operand(r))
                           ELSE PyBool(A[r] # C2_Operand(r))
           /\ ( /\ op \in {"equal_to_case_insensitive", "not_equal_to_case_insensitive"}
                /\ \A r \in Rows(value) : C2_Text(A[r]) /\ C2_Text(C2_Operand(r)) ) =>
                 /\ result.kind = "mask"
                 /\ DOMAIN result.mask = Rows(value)
                 /\ \A r \in Rows(value) :
                       (C2_Empty(A[r]) /\ C2_Empty(C2_Operand(r))) => result.mask[r] = "False"
           /\ ( /\ value = ClinicalNullTable
                /\ args.comparator = Str(AEDECOD)
                /\ ~args.value_is_literal ) =>
                 /\ op = "equal_to" => result = Mask(<<"True", "False", "False">>)
                 /\ op = "not_equal_to" => result = Mask(<<"False", "False", "True">>)

C2_Witness ==
    /\ value = ClinicalNullTable
    /\ op = "not_equal_to"
    /\ args.target = Str(AETERM)
    /\ args.comparator = Str(AEDECOD)
    /\ ~args.value_is_literal
    /\ result = Mask(<<"False", "False", "True">>)

(* C3: the mask of an operator F that has a not_F dual is the element-wise *)
(* negation of the mask of not_F.                                          *)
(*                                                                         *)
(* C3_Negates(f, g): f and g are masks over the same rows and, row by row, *)
(* one is true and the other false.                                        *)
C3_Negates(f, g) ==
    /\ f.kind = "mask"
    /\ g.kind = "mask"
    /\ DOMAIN f.mask = DOMAIN g.mask
    /\ \A r \in DOMAIN f.mask :
          \/ f.mask[r] = "True" /\ g.mask[r] = "False"
          \/ f.mask[r] = "False" /\ g.mask[r] = "True"

(* The masks of the operator called last and of its dual, F's first; two   *)
(* errors where the operator has no dual in the model                      *)
C3_Pair ==
    CASE op = "exists" -> <<result, not_exists(args, "typed")>>
      [] op = "not_exists" -> <<exists(args), result>>
      [] op = "equal_to" -> <<result, not_equal_to(args)>>
      [] op = "not_equal_to" -> <<equal_to(args), result>>
      [] op = "equal_to_case_insensitive" -> <<result, not_equal_to_case_insensitive(args)>>
      [] op = "not_equal_to_case_insensitive" -> <<equal_to_case_insensitive(args), result>>
      [] op = "matches_regex" -> <<result, not_matches_regex(args)>>
      [] op = "not_matches_regex" -> <<matches_regex(args), result>>
      [] op = "has_equal_length" -> <<result, has_not_equal_length(args)>>
      [] op = "has_not_equal_length" -> <<has_equal_length(args), result>>
      [] op = "is_contained_by" -> <<result, is_not_contained_by(args)>>
      [] op = "is_not_contained_by" -> <<is_contained_by(args), result>>
      [] op = "date_equal_to" -> <<result, date_not_equal_to(args)>>
      [] op = "date_not_equal_to" -> <<date_equal_to(args), result>>
      [] OTHER -> <<Error, Error>>

C3_Equality ==
    op \in {"equal_to", "not_equal_to",
            "equal_to_case_insensitive", "not_equal_to_case_insensitive"}

C3_BooleanMask(f) ==
    f.kind = "mask" /\ \A r \in DOMAIN f.mask : f.mask[r] \in {"True", "False"}

C4_TableUnchanged == [][value' = value]_vars

(* C5: an operator called with the abstract name of a column returns what  *)
(* it returns when called with the name replace_prefix gives, for the      *)
(* target, the comparator that is no literal, the context, the within and  *)
(* the ordering; exists(target = "--DECOD") is all true on a table with a  *)
(* column AEDECOD.                                                         *)
C5_Rewritten(a) ==
    [a EXCEPT !.target = replace_prefix(@),
              !.comparator = IF a.value_is_literal THEN @ ELSE replace_prefix(@),
              !.context = replace_prefix(@),
              !.within = replace_prefix(@),
              !.ordering = replace_prefix(@)]

C5_Operators ==
    {"exists", "equal_to", "not_equal_to", "equal_to_case_insensitive",
     "not_equal_to_case_insensitive", "has_equal_length", "has_not_equal_length",
     "is_contained_by", "is_not_contained_by", "empty", "non_empty",
     "empty_within_except_last_row", "contains_all", "not_contains_all",
     "is_valid_reference", "present_on_multiple_rows_within", "has_different_values"}

C5_Call(name, a) ==
    CASE name = "exists" -> exists(a)
      [] name = "equal_to" -> equal_to(a)
      [] name = "not_equal_to" -> not_equal_to(a)
      [] name = "equal_to_case_insensitive" -> equal_to_case_insensitive(a)
      [] name = "not_equal_to_case_insensitive" -> not_equal_to_case_insensitive(a)
      [] name = "has_equal_length" -> has_equal_length(a)
      [] name = "has_not_equal_length" -> has_not_equal_length(a)
      [] name = "is_contained_by" -> is_contained_by(a)
      [] name = "is_not_contained_by" -> is_not_contained_by(a)
      [] name = "empty" -> empty(a)
      [] name = "non_empty" -> non_empty(a)
      [] name = "empty_within_except_last_row" -> empty_within_except_last_row(a)
      [] name = "contains_all" -> contains_all(a)
      [] name = "not_contains_all" -> not_contains_all(a)
      [] name = "is_valid_reference" -> is_valid_reference(a)
      [] name = "present_on_multiple_rows_within" -> present_on_multiple_rows_within(a)
      [] name = "has_different_values" -> has_different_values(a)

C5_PrefixRewriting ==
    /\ op \in C5_Operators => result = C5_Call(op, C5_Rewritten(args))
    /\ (op = "exists" /\ args.target = Str(ABSTRACT_DECOD)) =>
           result = Mask([r \in Rows(value) |-> "True"])

(* C6: a mask an operator returns has one entry per row of the table.      *)
C6_MaskLength == result.kind = "mask" => Len(result.mask) = NRows(value)

(* C8: is_valid_reference without a context on relationship_data =         *)
(* {"S1": {"a", "b"}} and the target ["a", "c", "b"] gives                 *)
(* [true, false, true]; with a context, row r is true iff target[r] is in  *)
(* relationship_data[context[r]], and false when context[r] is no key.     *)
C8_OnTarget ==
    /\ op = "is_valid_reference"
    /\ args.target \in {Str(AETERM), Str(ABSTRACT_TERM)}

C8_Keys == {relationship_data[i].key : i \in DOMAIN relationship_data}

C8_Under(k) ==
    IF k \in C8_Keys
    THEN (CHOOSE e \in {relationship_data[i] : i \in DOMAIN relationship_data} :
              e.key = k).referents
    ELSE {}

C8_WithContext ==
    (C8_OnTarget /\ args.context = Str(USUBJID) /\ NRows(value) > 0) =>
        /\ result.kind = "mask"
        /\ DOMAIN result.mask = Rows(value)
        /\ \A r \in Rows(value) :
              result.mask[r] = "True" <=>
                  Column(value, Str(AETERM))[r] \in C8_Under(Column(value, Str(USUBJID))[r])
        /\ \A r \in Rows(value) :
              Column(value, Str(USUBJID))[r] \notin C8_Keys => result.mask[r] = "False"

C8_Scenario ==
    /\ C8_OnTarget
    /\ args.context = None
    /\ value = ReferenceTable
    /\ relationship_data = ScenarioRelationshipData

C8_ReferenceAmongReferents ==
    /\ C8_Scenario => result = Mask(<<"True", "False", "True">>)
    /\ C8_WithContext

(* As amended: without a context row r is true iff target[r] is a key of   *)
(* relationship_data, so the documented call gives [false, false, false].  *)
C8_ReferenceIsKey ==
    /\ (C8_OnTarget /\ args.context \in {None, Str(<<>>)}) =>
           /\ result.kind = "mask"
           /\ DOMAIN result.mask = Rows(value)
           /\ \A r \in Rows(value) :
                 result.mask[r] = PyBool(Column(value, Str(AETERM))[r] \in C8_Keys)
    /\ C8_Scenario => result = Mask(<<"False", "False", "False">>)
    /\ C8_WithContext

C8_Witness ==
    /\ C8_Scenario
    /\ result = Mask(<<"False", "False", "False">>)

(* C9: has_next_corresponding_record sorts the rows by the ordering column *)
(* and groups them by the within column; in a group every row but the last *)
(* is true iff its target equals the comparator of the next row, the last  *)
(* row of a group is null, and the groups follow each other in the order   *)
(* of their keys, so there is one null per group.  A = [10, 20, 30],       *)
(* B = [?, 10, 20] in one group gives [true, true, null].                  *)
C9_OnColumns ==
    /\ op = "has_next_corresponding_record"
    /\ args.target \in {Str(AETERM), Str(ABSTRACT_TERM)}
    /\ args.within = Str(USUBJID)
    /\ NRows(value) > 0

(* q lists the rows by group, the groups by key and the rows of a group by *)
(* the ordering column                                                     *)
C9_Listing(q) ==
    LET U == Column(value, Str(USUBJID))
        S == Column(value, Str(AESEQ))
    IN /\ \A i, j \in Rows(value) : i # j => q[i] # q[j]
       /\ \A i \in 1 .. (NRows(value) - 1) :
             \/ TextLess(U[q[i]].s, U[q[i + 1]].s)
             \/ U[q[i]] = U[q[i + 1]] /\ S[q[i]].n <= S[q[i + 1]].n

C9_LastOfGroup(q, i) ==
    \/ i = NRows(value)
    \/ Column(value, Str(USUBJID))[q[i]] # Column(value, Str(USUBJID))[q[i + 1]]

C9_NextRecord ==
    /\ C9_OnColumns =>
          /\ result.kind = "mask"
          /\ DOMAIN result.mask = Rows(value)
          /\ \E q \in [Rows(value) -> Rows(value)] :
                /\ C9_Listing(q)
                /\ \A i \in Rows(value) :
                      result.mask[i] =
                          IF C9_LastOfGroup(q, i) THEN "NA"
                          ELSE PyBool(Column(value, Str(AETERM))[q[i]]
                                          = Column(value, Str(AEDECOD))[q[i + 1]])
          /\ Cardinality({i \in Rows(value) : result.mask[i] = "NA"})
                 = Cardinality({Column(value, Str(USUBJID))[r] : r \in Rows(value)})
    /\ (C9_OnColumns /\ value = LagTable) => result = Mask(<<"True", "True", "NA">>)

C9_Witness ==
    /\ C9_OnColumns
    /\ value = LagTable
    /\ args.ordering = Str(ABSTRACT_SEQ)
    /\ result = Mask(<<"True", "True", "NA">>)

(* C10: on a table without rows every operator that returns a mask returns *)
(* the empty mask, and every operator that returns one boolean returns     *)
(* false, except contains_all, which returns true; has_different_values    *)
(* returns false.                                                          *)
(*                                                                         *)
(* C10_OnColumns: the call names columns of the table where the operator   *)
(* wants columns, a text where it wants a regex and a list or a column     *)
(* where it wants a collection.                                            *)
C10_Grouping ==
    {"empty_within_except_last_row", "non_empty_within_except_last_row",
     "is_ordered_set", "is_not_ordered_set"}

C10_OnColumns ==
    /\ NRows(value) = 0
    /\ op # "init"
    /\ args.target \in {Str(AETERM), Str(ABSTRACT_TERM)}
    /\ op \in {"matches_regex", "not_matches_regex"} => args.comparator.k = "str"
    /\ op \in {"is_contained_by", "is_not_contained_by"} =>
           \/ args.comparator.k = "list"
           \/ args.comparator = Str(AEDECOD) /\ ~args.value_is_literal
    /\ op \in C10_Grouping => args.comparator \in {Str(USUBJID), Str(AESEQ)}
    /\ op \in {"contains_all", "not_contains_all"} =>
           args.comparator \in {Str(AEDECOD), Str(ABSTRACT_DECOD)}
    /\ op = "is_valid_reference" => args.context \in {None, Str(<<>>), Str(USUBJID)}
    /\ op \in {"has_next_corresponding_record", "present_on_multiple_rows_within"} =>
           args.within = Str(USUBJID)

C10_Reducing ==
    {"empty_within_except_last_row", "non_empty_within_except_last_row",
     "is_ordered_set", "is_not_ordered_set", "contains_all", "not_contains_all"}

C10_EmptyTable ==
    C10_OnColumns =>
        IF op \in C10_Reducing THEN result = Bool(op = "contains_all")
        ELSE IF op = "has_different_values" THEN result \in {Bool(FALSE), Mask(<<>>)}
        ELSE result = Mask(<<>>)


---------------------------------------------------------------------------
(* C11: for a SelectMultipleType wrapper S and an iterable argument V,     *)
(* repeats and case variants in V included, shares_exactly_one_element_with *)
(* is true iff the intersection of S and V under case-insensitive equality *)
(* has exactly one element.                                                *)
C11_Called ==
    /\ type_name = "select_multiple"
    /\ type_op = "shares_exactly_one_element_with"
    /\ type_result.kind = "bool"

C11_Folded(v) == {Lower(Elements(v)[i]) : i \in DOMAIN Elements(v)}

C11_ExactlyOneShared ==
    C11_Called =>
        (type_result.bool
            <=> Cardinality(C11_Folded(type_value) \cap C11_Folded(type_arg)) = 1)

---------------------------------------------------------------------------
(* C12: get_all_operators() has one entry for every operator the type      *)
(* defines or inherits, so that the catalog of GenericType holds every     *)
(* operator name of the catalogs of StringType, NumericType, BooleanType,  *)
(* SelectType and SelectMultipleType.                                      *)
C12_Names(entries) == {e.name : e \in entries}

C12_GenericHasFamilyCatalogs ==
    (type_op = "get_all_operators" /\ type_name = "generic") =>
        \A cls \in Families :
            C12_Names(get_all_operators(cls)) \subseteq C12_Names(type_result.entries)

---------------------------------------------------------------------------
(* C13: construction fails with a type-assertion error on a payload of the *)
(* wrong shape: StringType takes text, and null as the empty string, and   *)
(* rejects every other payload (0, False, an empty list, a number);        *)
(* BooleanType takes the two booleans only; NumericType takes numbers only *)
(* (a boolean payload is left open here).                                  *)
C13_Failed == type_result.kind = "error"

C13_String ==
    (type_op = "__init__" /\ type_name = "string") =>
        /\ C13_Failed <=> type_arg.k \notin {"str", "null"}
        /\ type_arg.k = "null" => type_value = Str(<<>>)
        /\ type_arg.k = "str" => type_value = type_arg

C13_Boolean ==
    (type_op = "__init__" /\ type_name = "boolean") =>
        /\ C13_Failed <=> type_arg.k # "bool"
        /\ ~C13_Failed => type_value = type_arg

C13_Numeric ==
    (type_op = "__init__" /\ type_name = "numeric" /\ type_arg.k # "bool") =>
        (C13_Failed <=> type_arg.k # "num")

C13_ConstructionRejectsWrongShape == C13_String /\ C13_Boolean /\ C13_Numeric

---------------------------------------------------------------------------
(* C14: a failed precondition aborts the call with an error and no mask: a *)
(* string-part operator (prefix_equal_to, suffix_equal_to,                 *)
(* prefix_is_contained_by, suffix_is_contained_by) whose target column has *)
(* a cell that is no str, is_ordered_set / is_not_ordered_set whose        *)
(* comparator is no single str, is_ordered_by whose order is neither "asc" *)
(* nor "dsc".                                                              *)
C14_StringPartOperators ==
    {"prefix_equal_to", "suffix_equal_to", "prefix_is_contained_by",
     "suffix_is_contained_by"}

C14_NonStringCell ==
    /\ InTable(value, replace_prefix(args.target))
    /\ \E r \in Rows(value) : Column(value, replace_prefix(args.target))[r].k # "str"

C14_Aborted == result.kind = "error" /\ result.mask = <<>>

C14_PreconditionAborts ==
    /\ (op \in C14_StringPartOperators /\ C14_NonStringCell) => C14_Aborted
    /\ (op \in {"is_ordered_set", "is_not_ordered_set"} /\ args.comparator.k # "str")
          => C14_Aborted
    /\ (/\ op = "is_ordered_by"
        /\ args.order \notin {None, Str(<<"a", "s", "c">>), Str(<<"d", "s", "c">>)})
          => C14_Aborted

C14_Witness ==
    /\ op = "prefix_equal_to"
    /\ C14_NonStringCell
    /\ \E r \in Rows(value) : Column(value, replace_prefix(args.target))[r].k = "str"
    /\ args.prefix = Num(1)
    /\ C14_Aborted

---------------------------------------------------------------------------
(* C20: prefix_equal_to / suffix_equal_to compare the first / last N       *)
(* characters of each target cell with the comparison data, for every      *)
(* N >= 0: N = 0 gives the empty string, and N above the length of the     *)
(* cell gives the whole cell.                                              *)
C20_Min(m, n) == IF m < n THEN m ELSE n

C20_First(t, n) == SubSeq(t, 1, C20_Min(n, Len(t)))

C20_Last(t, n) == SubSeq(t, Len(t) - C20_Min(n, Len(t)) + 1, Len(t))

C20_ComparisonData(r) ==
    IF get_comparator_is_column(string_part_comparator(args), args.value_is_literal)
    THEN Column(value, string_part_comparator(args))[r]
    ELSE string_part_comparator(args)

C20_Compared(part, r) ==
    PyBool(C20_ComparisonData(r).k = "str" /\ C20_ComparisonData(r).s = part)

C20_FirstAndLastCharacters ==
    /\ (op = "prefix_equal_to" /\ result.kind = "mask" /\ args.prefix.k = "num") =>
          \A r \in Rows(value) :
              result.mask[r] =
                  C20_Compared(C20_First(Column(value, replace_prefix(args.target))[r].s,
                                         args.prefix.n), r)
    /\ (op = "suffix_equal_to" /\ result.kind = "mask" /\ args.suffix.k = "num") =>
          \A r \in Rows(value) :
              result.mask[r] =
                  C20_Compared(C20_Last(Column(value, replace_prefix(args.target))[r].s,
                                        args.suffix.n), r)

---------------------------------------------------------------------------
(* C15: is_ordered_by(target, order) is true at row i iff target[i] equals *)
(* the i-th element of the target column sorted ascending ("asc", the      *)
(* default) or descending ("dsc"): [1,2,3] asc is all true, [2,1,3] asc is *)
(* [false,false,true]; is_not_ordered_by is the complement.                *)
C15_Cells == Column(value, replace_prefix(args.target))

C15_Ascending == args.order \in {None, Str(<<"a", "s", "c">>)}

C15_Before(x, y) == IF C15_Ascending THEN CellLess(x, y) ELSE CellLess(y, x)

C15_Present == {j \in Rows(value) : ~isna(C15_Cells[j])}

(* cell r is what stands at place r of the sorted column: fewer than r     *)
(* cells come before it, and at least r cells do not come after it         *)
C15_InPlace(r) ==
    /\ Cardinality({j \in C15_Present : C15_Before(C15_Cells[j], C15_Cells[r])}) < r
    /\ r <= Cardinality({j \in C15_Present : ~C15_Before(C15_Cells[r], C15_Cells[j])})

C15_Called(name) ==
    /\ op = name
    /\ result.kind = "mask"

(* as stated: a null cell equals the null that the sort puts in its place  *)
C15_OrderedBy ==
    C15_Called("is_ordered_by") =>
        \A r \in Rows(value) :
            result.mask[r] =
                PyBool(IF isna(C15_Cells[r]) THEN r > Cardinality(C15_Present)
                       ELSE C15_InPlace(r))

(* amended: a row whose cell is null is false *)
C15_OrderedByNotNull ==
    /\ C15_Called("is_ordered_by") =>
          \A r \in Rows(value) :
              result.mask[r] = PyBool(~isna(C15_Cells[r]) /\ C15_InPlace(r))
    /\ C15_Called("is_not_ordered_by") =>
          \A r \in Rows(value) :
              result.mask[r] = PyBool(~(~isna(C15_Cells[r]) /\ C15_InPlace(r)))
    /\ (op = "is_ordered_by" /\ args.target = Str(AETERM) /\ C15_Ascending) =>
          /\ value = OrderedTable => result = Mask(<<"True", "True", "True">>)
          /\ value = UnorderedTable => result = Mask(<<"False", "False", "True">>)

C15_Witness ==
    /\ op = "is_ordered_by"
    /\ value = UnorderedTable
    /\ args.target = Str(AETERM)
    /\ args.order = None
    /\ result = Mask(<<"False", "False", "True">>)

---------------------------------------------------------------------------
(* C16: is_ordered_by with order asc and with order dsc both hold, at a    *)
(* row and at every row, iff the target column is constant.                *)
C16_OnColumn ==
    /\ op = "is_ordered_by"
    /\ InTable(value, replace_prefix(args.target))
    /\ args.order \in {Str(<<"a", "s", "c">>), Str(<<"d", "s", "c">>)}

C16_Reversed ==
    is_ordered_by([args EXCEPT !.order = IF args.order = Str(<<"a", "s", "c">>)
                                         THEN Str(<<"d", "s", "c">>)
                                         ELSE Str(<<"a", "s", "c">>)])

C16_Constant == \A i, j \in Rows(value) : C15_Cells[i] = C15_Cells[j]

C16_BothAt(r) ==
    /\ result.kind = "mask" /\ result.mask[r] = "True"
    /\ C16_Reversed.kind = "mask" /\ C16_Reversed.mask[r] = "True"

(* as stated: at a row and at every row *)
C16_BothOrdersIffConstant ==
    C16_OnColumn =>
        /\ (\A r \in Rows(value) : C16_BothAt(r)) <=> C16_Constant
        /\ \A r \in Rows(value) : C16_BothAt(r) <=> C16_Constant

(* amended: at every row, for a column without a null cell *)
C16_BothOrdersEverywhereIffConstant ==
    C16_OnColumn =>
        ((\A r \in Rows(value) : C16_BothAt(r))
            <=> (C16_Constant /\ \A r \in Rows(value) : ~isna(C15_Cells[r])))

C16_Witness ==
    /\ C16_OnColumn
    /\ NRows(value) = 2
    /\ C16_Constant
    /\ C15_Cells[1] = Num(1)
    /\ \A r \in Rows(value) : C16_BothAt(r)

---------------------------------------------------------------------------
(* C17: uses_valid_codelist_terms is true at a row iff in at least one of  *)
(* the codelist_term_maps the codelist of the row is extensible or every   *)
(* term of the row is among its allowed_terms; C1 extensible with          *)
(* allowed_terms ["x"] and the terms ["x","y"] is true, a codelist that is *)
(* in no map is false, and does_not_use_valid_codelist_terms is the        *)
(* complement.                                                             *)
C17_Codelist(r) == Column(value, replace_prefix(args.target))[r]

C17_Terms(r) ==
    LET terms_list == Column(value, replace_prefix(args.comparator))[r]
    IN {Elements(terms_list)[j] : j \in DOMAIN Elements(terms_list)}

C17_ValidInSomeMap(r) ==
    \E i \in DOMAIN codelist_term_maps :
        \E e \in codelist_term_maps[i] :
            /\ C17_Codelist(r).k = "str"
            /\ e.codelist = C17_Codelist(r).s
            /\ (e.extensible \/ C17_Terms(r) \subseteq e.allowed_terms)

C17_Called(name) ==
    /\ op = name
    /\ result.kind = "mask"

(* as stated: for every row *)
C17_ValidTerms ==
    C17_Called("uses_valid_codelist_terms") =>
        \A r \in Rows(value) : result.mask[r] = PyBool(C17_ValidInSomeMap(r))

(* amended: for every row that has a codelist; a row without one is true *)
C17_ValidTermsOfACodelist ==
    /\ C17_Called("uses_valid_codelist_terms") =>
          \A r \in Rows(value) :
              result.mask[r] =
                  PyBool(~Truthy(C17_Codelist(r)) \/ C17_ValidInSomeMap(r))
    /\ C17_Called("does_not_use_valid_codelist_terms") =>
          \A r \in Rows(value) :
              result.mask[r] =
                  PyBool(~(~Truthy(C17_Codelist(r)) \/ C17_ValidInSomeMap(r)))
    /\ (/\ C17_Called("uses_valid_codelist_terms")
        /\ codelist_term_maps = <<ExtensibleTermMap>>
        /\ args.comparator = Str(AEDECOD)) =>
          \A r \in Rows(value) :
              /\ (C17_Codelist(r) = Str(CODELIST_1) /\ C17_Terms(r) = {<<"x">>, <<"y">>})
                    => result.mask[r] = "True"
              /\ C17_Codelist(r) = Str(CODELIST_3) => result.mask[r] = "False"

C17_Witness ==
    /\ C17_Called("uses_valid_codelist_terms")
    /\ codelist_term_maps = <<ExtensibleTermMap, ClosedTermMap>>
    /\ args.comparator = Str(AEDECOD)
    /\ NRows(value) = 2
    /\ C17_Codelist(1) = Str(CODELIST_4) /\ C17_Terms(1) = {<<"x">>, <<"y">>}
    /\ C17_Codelist(2) = Str(<<>>)
    /\ result = Mask(<<"True", "True">>)

---------------------------------------------------------------------------
(* C18: references_correct_codelist is true at a row iff, when the name of *)
(* the target variable is a key of column_codelist_map, the codelist of    *)
(* the row is among those mapped to it; else, when a generic form of the   *)
(* name (a concrete prefix of column_prefix_map replaced by its abstract   *)
(* key) is a key, the codelist is among those mapped to the generic form;  *)
(* when neither is a key the row is true.                                  *)
C18_Name(r) == Column(value, replace_prefix(args.target))[r]

C18_Codelist(r) == Column(value, replace_prefix(args.comparator))[r]

C18_Keys == {column_codelist_map[i].key : i \in DOMAIN column_codelist_map}

C18_Mapped(key) ==
    UNION {column_codelist_map[i].codelists :
               i \in {j \in DOMAIN column_codelist_map : column_codelist_map[j].key = key}}

C18_GenericForms(name) ==
    {column_prefix_map[i].prefix
         \o SubSeq(name, Len(column_prefix_map[i].replacement) + 1, Len(name)) :
       i \in {j \in DOMAIN column_prefix_map :
                 StartsWith(name, column_prefix_map[j].replacement)}}

C18_Among(r, key) == C18_Codelist(r).k = "str" /\ C18_Codelist(r).s \in C18_Mapped(key)

C18_Correct(r) ==
    IF C18_Name(r).s \in C18_Keys THEN C18_Among(r, C18_Name(r).s)
    ELSE IF C18_GenericForms(C18_Name(r).s) \cap C18_Keys # {}
    THEN \E g \in C18_GenericForms(C18_Name(r).s) \cap C18_Keys : C18_Among(r, g)
    ELSE TRUE

C18_ReferencesCorrectCodelist ==
    (op = "references_correct_codelist" /\ result.kind = "mask") =>
        \A r \in Rows(value) :
            C18_Name(r).k = "str" => result.mask[r] = PyBool(C18_Correct(r))

C18_Witness ==
    /\ op = "references_correct_codelist"
    /\ column_codelist_map = GenericCodelistMap
    /\ args.target = Str(USUBJID)
    /\ args.comparator = Str(AETERM)
    /\ NRows(value) = 2
    /\ C18_Name(1) = Str(AEDECOD) /\ C18_Codelist(1) = Str(CODELIST_1)
    /\ C18_Name(2) = Str(<<"X", "X">>)
    /\ result = Mask(<<"False", "True">>)

---------------------------------------------------------------------------
(* C19: is_not_unique_relationship(target, comparator): once duplicate     *)
(* (target, comparator) pairs are dropped, a target value or a comparator  *)
(* value that still occurs more than once is violating, and the mask is    *)
(* true exactly at the rows whose target value or comparator value is      *)
(* violating; a table where every target value goes with one comparator    *)
(* value and the other way round is all false, repeated pairs allowed;     *)
(* is_unique_relationship is the complement.                               *)
C19_Target(r) == Column(value, replace_prefix(args.target))[r]

C19_Comparator(r) == Column(value, replace_prefix(args.comparator))[r]

C19_ComparatorsOf(t) == {C19_Comparator(q) : q \in {x \in Rows(value) : C19_Target(x) = t}}

C19_TargetsOf(c) == {C19_Target(q) : q \in {x \in Rows(value) : C19_Comparator(x) = c}}

C19_Violating(r) ==
    \/ Cardinality(C19_ComparatorsOf(C19_Target(r))) > 1
    \/ Cardinality(C19_TargetsOf(C19_Comparator(r))) > 1

C19_OneToOne ==
    \A r, q \in Rows(value) :
        (C19_Target(r) = C19_Target(q)) <=> (C19_Comparator(r) = C19_Comparator(q))

C19_Called(name) ==
    /\ op = name
    /\ result.kind = "mask"

C19_UniqueRelationship ==
    /\ C19_Called("is_not_unique_relationship") =>
          /\ \A r \in Rows(value) : result.mask[r] = PyBool(C19_Violating(r))
          /\ C19_OneToOne => \A r \in Rows(value) : result.mask[r] = "False"
    /\ C19_Called("is_unique_relationship") =>
          \A r \in Rows(value) : result.mask[r] = PyBool(~C19_Violating(r))

C19_Witness ==
    /\ op = "is_not_unique_relationship"
    /\ value = InvalidDataset
    /\ args.target = Str(AETERM)
    /\ args.comparator = Str(AEDECOD)
    /\ result = Mask(<<"True", "True", "False">>)

(* C22: equals_string_part, with value_is_literal true as with it false,   *)
(* gives at every row the clinical-null equality of the target cell with   *)
(* the part the regex captures from the comparator: from the row's cell of *)
(* the comparator column, or from the comparator itself when it is a       *)
(* literal or no column.                                                   *)
C22_Called == op = "equals_string_part" /\ replace_prefix(args.target) = Str(AETERM)

C22_Empty(x) == x.k = "null" \/ (x.k = "str" /\ Len(x.s) = 0)

C22_Part(r) ==
    IF ~args.value_is_literal /\ args.comparator = Str(AEDECOD)
    THEN apply_regex(args.regex, Column(value, Str(AEDECOD))[r])
    ELSE apply_regex(args.regex, args.comparator)

C22_StringPart ==
    C22_Called =>
        /\ result.kind = "mask"
        /\ \A r \in 1 .. NRows(value) :
              result.mask[r] =
                  IF C22_Empty(Column(value, Str(AETERM))[r]) /\ C22_Empty(C22_Part(r))
                  THEN "False"
                  ELSE PyBool(Column(value, Str(AETERM))[r] = C22_Part(r))

(* C23: empty_within_except_last_row groups the rows by the comparator     *)
(* column, drops the last row of every group and returns true iff a target *)
(* cell of a remaining row is empty (the empty string or null);            *)
(* non_empty_within_except_last_row returns true iff every such cell is    *)
(* non-empty; on every table the one is the negation of the other.         *)
C23_Called(name) ==
    /\ op = name
    /\ replace_prefix(args.target) = Str(AETERM)
    /\ args.comparator \in {Str(USUBJID), Str(AESEQ)}

C23_Remaining ==
    {r \in 1 .. NRows(value) :
        \E later \in 1 .. NRows(value) :
            /\ later > r
            /\ Column(value, args.comparator)[later] = Column(value, args.comparator)[r]}

C23_AnyEmpty ==
    \E r \in C23_Remaining :
        LET cell == Column(value, Str(AETERM))[r]
        IN cell.k = "null" \/ (cell.k = "str" /\ Len(cell.s) = 0)

C23_WithinExceptLastRow ==
    /\ C23_Called("empty_within_except_last_row") => result = Bool(C23_AnyEmpty)
    /\ C23_Called("non_empty_within_except_last_row") => result = Bool(~C23_AnyEmpty)

(* C25: matches_regex is true at a row iff the regex matches somewhere in  *)
(* the target cell, at its start or further on, and not_matches_regex is   *)
(* true at the other rows.                                                 *)
C25_Called(name) ==
    /\ op = name
    /\ replace_prefix(args.target) = Str(AETERM)
    /\ args.comparator.k = "str"
    /\ \A r \in 1 .. NRows(value) : Column(value, Str(AETERM))[r].k = "str"

C25_Search(pattern, text) ==
    \E i \in 1 .. Len(text) + 1 :
        /\ i + Len(pattern) - 1 <= Len(text)
        /\ SubSeq(text, i, i + Len(pattern) - 1) = pattern

C25_Found(r) == C25_Search(args.comparator.s, Column(value, Str(AETERM))[r].s)

C25_UnanchoredSearch ==
    /\ C25_Called("matches_regex") =>
           result = Mask([r \in 1 .. NRows(value) |-> PyBool(C25_Found(r))])
    /\ C25_Called("not_matches_regex") =>
           result = Mask([r \in 1 .. NRows(value) |-> PyBool(~C25_Found(r))])

(* C27: where several keys of column_prefix_map stand at the start of a    *)
(* string, replace_prefix substitutes the longest of them, whatever the    *)
(* order of the keys in the map, and only where it stands at the start; a  *)
(* string no key is a prefix of, and a value that is no string, are        *)
(* returned unchanged.                                                     *)
C27_Matching ==
    {i \in DOMAIN column_prefix_map :
        /\ Len(column_prefix_map[i].prefix) <= Len(args.target.s)
        /\ SubSeq(args.target.s, 1, Len(column_prefix_map[i].prefix))
               = column_prefix_map[i].prefix}

C27_Longest ==
    CHOOSE i \in C27_Matching :
        \A j \in C27_Matching :
            Len(column_prefix_map[j].prefix) <= Len(column_prefix_map[i].prefix)

C27_Substituted ==
    IF args.target.k # "str" \/ C27_Matching = {} THEN args.target
    ELSE Str(column_prefix_map[C27_Longest].replacement
                 \o SubSeq(args.target.s,
                           Len(column_prefix_map[C27_Longest].prefix) + 1,
                           Len(args.target.s)))

C27_LongestPrefix == op = "replace_prefix" => result = Returned(C27_Substituted)

(* C28: an operator that takes a comparator uses it verbatim as a literal  *)
(* when value_is_literal is true, never rewriting its prefix and never     *)
(* reading the column it may name; otherwise it uses the column the string *)
(* names, row by row, and the string itself when it names no column.       *)
C28_Called(name) ==
    /\ op = name
    /\ replace_prefix(args.target) = Str(AETERM)
    /\ args.value_is_literal \/ replace_prefix(args.comparator) = args.comparator

C28_Operand(r) ==
    IF ~args.value_is_literal /\ args.comparator = Str(AEDECOD)
    THEN Column(value, Str(AEDECOD))[r]
    ELSE args.comparator

C28_Empty(x) == x.k = "null" \/ (x.k = "str" /\ Len(x.s) = 0)

C28_Equal(r) ==
    /\ ~(C28_Empty(Column(value, Str(AETERM))[r]) /\ C28_Empty(C28_Operand(r)))
    /\ Column(value, Str(AETERM))[r] = C28_Operand(r)

C28_Unequal(r) ==
    /\ ~(C28_Empty(Column(value, Str(AETERM))[r]) /\ C28_Empty(C28_Operand(r)))
    /\ Column(value, Str(AETERM))[r] # C28_Operand(r)

C28_SameDate(r) ==
    compare_dates(args.date_component, Column(value, Str(AETERM))[r], C28_Operand(r), "eq")

C28_ComparatorResolution ==
    /\ C28_Called("equal_to") =>
           result = Mask([r \in 1 .. NRows(value) |-> PyBool(C28_Equal(r))])
    /\ C28_Called("not_equal_to") =>
           result = Mask([r \in 1 .. NRows(value) |-> PyBool(C28_Unequal(r))])
    /\ C28_Called("date_equal_to") =>
           result = Mask([r \in 1 .. NRows(value) |-> PyBool(C28_SameDate(r))])
    /\ C28_Called("date_not_equal_to") =>
           result = Mask([r \in 1 .. NRows(value) |-> PyBool(~C28_SameDate(r))])

(* C29: less_than, less_than_or_equal_to, greater_than_or_equal_to and     *)
(* greater_than never raise on an operand that is no number: the target    *)
(* and the comparator, a column or a literal, are coerced to numbers, what *)
(* is no number becomes not-a-number, and at a row with a not-a-number     *)
(* operand all four are false; elsewhere they compare the numbers.         *)
C29_Operators ==
    {"less_than", "less_than_or_equal_to", "greater_than_or_equal_to", "greater_than"}

C29_Called == op \in C29_Operators /\ replace_prefix(args.target) = Str(AETERM)

C29_Target(r) == to_numeric(Column(value, Str(AETERM))[r])

C29_Comparator(r) ==
    IF ~args.value_is_literal /\ replace_prefix(args.comparator) = Str(AEDECOD)
    THEN to_numeric(Column(value, Str(AEDECOD))[r])
    ELSE to_numeric(args.comparator)

C29_Compared(r) ==
    /\ C29_Target(r).k = "num"
    /\ C29_Comparator(r).k = "num"
    /\ CASE op = "less_than" -> C29_Target(r).n < C29_Comparator(r).n
         [] op = "less_than_or_equal_to" -> C29_Target(r).n <= C29_Comparator(r).n
         [] op = "greater_than_or_equal_to" -> C29_Target(r).n >= C29_Comparator(r).n
         [] op = "greater_than" -> C29_Target(r).n > C29_Comparator(r).n

C29_CoercedOrdering ==
    C29_Called => result = Mask([r \in 1 .. NRows(value) |-> PyBool(C29_Compared(r))])

(* C21: over the columns whose name is the target followed by digits, in   *)
(* their order, additional_columns_empty is true at a row iff some column  *)
(* is empty there and the column after it is non-empty there (two empty    *)
(* strings in a row with no non-empty column after them give false);       *)
(* additional_columns_not_empty is true at the other rows.                 *)
C21_Called(name) == op = name /\ replace_prefix(args.target) = Str(AETERM)

C21_Empty(x) == x.k = "null" \/ (x.k = "str" /\ Len(x.s) = 0)

C21_Cell(i, r) == Column(value, Str(AETERM \o <<ToString(i)>>))[r]

C21_Gap(r) ==
    \E i \in 1 .. 2 : C21_Empty(C21_Cell(i, r)) /\ ~C21_Empty(C21_Cell(i + 1, r))

C21_AdditionalColumns ==
    /\ C21_Called("additional_columns_empty") =>
           result = Mask([r \in 1 .. NRows(value) |-> PyBool(C21_Gap(r))])
    /\ C21_Called("additional_columns_not_empty") =>
           result = Mask([r \in 1 .. NRows(value) |-> PyBool(~C21_Gap(r))])

(* C24: for every value_level_metadata list, the empty list included, the  *)
(* value-level-metadata operators return a mask over the rows: the         *)
(* non-conformant ones flag a row iff some record's filter holds there and *)
(* its check fails, the conformant ones iff some record's filter holds     *)
(* there and its check succeeds; a row no filter holds for is false in     *)
(* both, and with no record every row is false.                            *)
C24_Check ==
    IF op \in {"non_conformant_value_data_type", "conformant_value_data_type"}
    THEN "type_check" ELSE "length_check"

C24_Conformant == op \in {"conformant_value_data_type", "conformant_value_length"}

C24_Flagged(r) ==
    \E i \in 1 .. Len(value_level_metadata) :
        /\ row_predicate(value_level_metadata[i].filter, r)
        /\ row_predicate(value_level_metadata[i][C24_Check], r) <=> C24_Conformant

C24_Called ==
    op \in {"non_conformant_value_data_type", "non_conformant_value_length",
            "conformant_value_data_type", "conformant_value_length"}

C24_ValueLevelMetadata ==
    C24_Called => result = Mask([r \in 1 .. NRows(value) |-> PyBool(C24_Flagged(r))])

(* C26: on a GenericType wrapper that stores a decimal, equal_to(v) is     *)
(* true iff |a - v| <= 1e-6 and not_equal_to(v) iff |a - v| > 1e-6, as on  *)
(* a NumericType wrapper, which also raises on a v that is no number; on   *)
(* one that stores anything else equal_to(v) is the exact equality of the  *)
(* stored value with v and not_equal_to(v) the exact inequality; either    *)
(* way not_equal_to(v) is the negation of equal_to(v).                     *)
C26_Called(name) == type_name = "generic" /\ type_op = name

C26_Number(v) == v.k \in {"num", "bool"}

C26_Within == (type_value.n - Decimal(type_arg).n) \in (0 - 2) .. 2

C26_Same == ~C26_Number(type_arg) /\ type_value = type_arg

C26_GenericEquality ==
    /\ (C26_Called("equal_to") /\ type_value.k = "num") =>
           type_result = IF C26_Number(type_arg) THEN Bool(C26_Within) ELSE Error
    /\ (C26_Called("not_equal_to") /\ type_value.k = "num") =>
           type_result = IF C26_Number(type_arg) THEN Bool(~C26_Within) ELSE Error
    /\ (C26_Called("equal_to") /\ type_value.k # "num") => type_result = Bool(C26_Same)
    /\ (C26_Called("not_equal_to") /\ type_value.k # "num") => type_result = Bool(~C26_Same)

C26_Witness ==
    /\ C26_Called("equal_to")
    /\ type_value = Num(0)
    /\ type_arg = Num(2)
    /\ type_result = Bool(TRUE)

(* C30: is_contained_by on a GenericType wrapper that holds a scalar, a    *)
(* string or a decimal, leaves the stored value as it was, so that         *)
(* equal_to, not_equal_to and contains answer after any number of          *)
(* is_contained_by calls what they answered before.                        *)
C30_HoldsScalar == type_name = "generic" /\ type_value.k \in {"str", "num"}

C30_StoredValueUnchanged ==
    [][(C30_HoldsScalar /\ type_op' = "is_contained_by") => type_value' = type_value]_vars

===========================================================================
